---- MODULE Spec2Model ----
(***************************************************************************)
(* A model of the poolside backend's request handlers: the chat tool loop  *)
(* (src/src/routes/chat.ts with src/src/services/claude.ts, and the        *)
(* serverless copy in src/api/index.js), the file-changes parser, the      *)
(* GitHub commit flow, the Stripe webhook relay, the JWT middleware and   *)
(* the password login.  Each handler is a state machine whose steps are    *)
(* the stretches of code between two awaits.  The variable impl names the  *)
(* source file that serves the request, since the repository holds more    *)
(* than one implementation of most routes.                                 *)
(***************************************************************************)
EXTENDS Integers, Sequences, FiniteSets, TLC

\* ------------------------------------------------------------------ bounds
\* Tokens in a model text handed to parseFileChanges.
MaxTextLen == 4
\* tool_use blocks in one model turn.
MaxCalls == 2
\* Paths in the input of one read_multiple_files call.
MaxPaths == 2
\* Text deltas streamed in one model turn.
MaxChunks == 1
\* File changes a chat request collects over its iterations.
MaxAllChanges == 1
\* Files in the body of one commit request.
MaxFiles == 2
\* Commits someone else pushes to the branch while a commit request is served.
MaxPushes == 1

\* ------------------------------------------------------- program constants
MAX_TOOL_ITERATIONS == 10
MAX_ITERATIONS == 5
\* expiresIn of an access token ('15m') and of a refresh token ('7d'), in minutes.
AccessMinutes == 15
RefreshMinutes == 10080

VARIABLES
  impl,          \* the source file serving the request
  env,           \* process.env
  users,         \* the user table
  \* --- parseFileChanges applied to one model text, and the answer built from it
  content,       \* the text handed to parseFileChanges
  parsed,        \* NotCalled before the call, then [threw, value]
  chatAnswer,    \* the answer of the chat request that parsed the text
  \* --- one POST /api/chat/with-tools request
  body,          \* req.body
  pc,            \* where the handler is: idle, db, llm, tools, done
  iterations,
  allFileChanges,
  apiMessages,
  resolvedStorageToken,
  turn,          \* the tool calls of the model turn being executed
  inflight,      \* the outbound HTTP calls that have not returned
  llmCalls,      \* LLM calls made so far
  res,           \* the HTTP response
  sse,  \* the events written since the current iteration began
  \* --- one POST /api/github/commit request, and the repository at GitHub
  commitReq,     \* req.body and req.user
  commit,        \* the handler: where it is, its locals, the calls it issued, its answer
  github,        \* the repository: commits, trees, blobs, the head of the branch
  \* --- one Stripe event at the webhook route, and the backend it relays to
  event,         \* the event, and the INTERNAL_WEBHOOK_SECRET of the two deployments
  hook,          \* the route: where it is, the relays it posted, its answer
  subs,          \* the subscription table of the backend
  \* --- one request to a route that authenticateToken guards
  authReq,       \* the Authorization header
  auth,          \* the middleware: its answer, req.user, the calls of next()
  \* --- one POST /auth/login request
  loginReq,      \* req.body
  login,         \* the handler: where it is, the user it found, its answer
  accounts,      \* the user table by e-mail address
  \* --- one POST /auth/refresh request
  refreshReq,    \* req.body
  refresh,       \* the handler: where it is, the userId it decoded, its answer
  members,       \* the user table by id, each user with the tier of its subscription
  \* --- one POST /auth/register request
  registerReq,   \* req.body
  register,      \* the handler: where it is, the hash it computed, its answer
  registry,      \* the user table: the rows in the order they were created
  \* --- one POST /webhooks/stripe/subscription request sent to the backend by anyone
  backendReq,    \* the x-webhook-secret header and req.body
  internalSecret, \* process.env.INTERNAL_WEBHOOK_SECRET of the backend
  backend,       \* the handler: where it is, its answer
  subscriptions, \* the subscription table
  \* --- one POST /auth/apple request
  appleReq,      \* req.body
  apple,         \* the handler: where it is, the token's payload, the user it holds, its answer
  appleUsers,    \* the user table: the rows in the order they were created
  \* --- one POST /auth/forgot-password request, served against two user tables
  forgotReq,     \* req.body
  forgot,        \* for each table, the handler: where it is, what it logged, its answer
  worlds,        \* the two tables: one with an account under the address, one without
  \* --- POST /auth/reset-password, and the token one client holds
  issued,        \* the token the client holds: the kind it was issued as, and the token
  resetReq,      \* req.body
  reset,         \* the handler: where it is, the decoded userId, its answer
  passwords,     \* passwordHash of each user
  \* --- concurrent POST /auth/register requests
  raceReq,       \* req.body of each request
  race           \* the handler of each request: where it is, its answer

sharedVars == <<impl, env, users>>
parseVars == <<content, parsed, chatAnswer>>
chatVars == <<body, pc, iterations, allFileChanges, apiMessages, resolvedStorageToken,
              turn, inflight, llmCalls, res, sse>>
commitVars == <<commitReq, commit, github>>
hookVars == <<event, hook, subs>>
authVars == <<authReq, auth>>
loginVars == <<loginReq, login, accounts>>
refreshVars == <<refreshReq, refresh, members>>
registerVars == <<registerReq, register, registry>>
backendVars == <<backendReq, internalSecret, backend, subscriptions>>
appleVars == <<appleReq, apple, appleUsers>>
forgotVars == <<forgotReq, forgot, worlds>>
resetVars == <<issued, resetReq, reset, passwords>>
raceVars == <<raceReq, race>>
vars == <<sharedVars, parseVars, chatVars, commitVars, hookVars, authVars, loginVars,
         refreshVars,
         registerVars,
         backendVars,
         appleVars,
         forgotVars,
         resetVars,
         raceVars>>

\* What the actions of one handler leave alone.
exceptParse == <<sharedVars, chatVars, commitVars, hookVars, authVars, loginVars,
  refreshVars,
  registerVars,
  backendVars,
  appleVars,
  forgotVars,
  resetVars,
  raceVars>>
exceptChat == <<sharedVars, parseVars, commitVars, hookVars, authVars, loginVars,
  refreshVars,
  registerVars,
  backendVars,
  appleVars,
  forgotVars,
  resetVars,
  raceVars>>
exceptCommit == <<sharedVars, parseVars, chatVars, hookVars, authVars, loginVars,
  refreshVars,
  registerVars,
  backendVars,
  appleVars,
  forgotVars,
  resetVars,
  raceVars>>
exceptHook == <<sharedVars, parseVars, chatVars, commitVars, authVars, loginVars,
  refreshVars,
  registerVars,
  backendVars,
  appleVars,
  forgotVars,
  resetVars,
  raceVars>>
exceptAuth == <<sharedVars, parseVars, chatVars, commitVars, hookVars, loginVars,
  refreshVars,
  registerVars,
  backendVars,
  appleVars,
  forgotVars,
  resetVars,
  raceVars>>
exceptLogin == <<sharedVars, parseVars, chatVars, commitVars, hookVars, authVars,
  refreshVars,
  registerVars,
  backendVars,
  appleVars,
  forgotVars,
  resetVars,
  raceVars>>
exceptRefresh == <<sharedVars, parseVars, chatVars, commitVars, hookVars, authVars, loginVars,
  registerVars,
  backendVars,
  appleVars,
  forgotVars,
  resetVars,
  raceVars>>
exceptRegister == <<sharedVars, parseVars, chatVars, commitVars, hookVars, authVars, loginVars, refreshVars,
  backendVars,
  appleVars,
  forgotVars,
  resetVars,
  raceVars>>
exceptBackend == <<sharedVars, parseVars, chatVars, commitVars, hookVars, authVars, loginVars, refreshVars, registerVars,
  appleVars,
  forgotVars,
  resetVars,
  raceVars>>
exceptApple == <<sharedVars, parseVars, chatVars, commitVars, hookVars, authVars, loginVars, refreshVars, registerVars, backendVars,
  forgotVars,
  resetVars,
  raceVars>>
exceptForgot == <<sharedVars, parseVars, chatVars, commitVars, hookVars, authVars, loginVars, refreshVars, registerVars, backendVars, appleVars,
  resetVars,
  raceVars>>
exceptReset == <<sharedVars, parseVars, chatVars, commitVars, hookVars, authVars, loginVars, refreshVars, registerVars, backendVars, appleVars, forgotVars,
  raceVars>>
\* The concurrent requests write the user table of registerVars.
exceptRace == <<sharedVars, parseVars, chatVars, commitVars, hookVars, authVars, loginVars, refreshVars, backendVars, appleVars, forgotVars, resetVars>>

\* ------------------------------------------------------------------ helpers
SeqsUpTo(S, n) == UNION {[1..k -> S] : k \in 0..n}

RECURSIVE Flatten(_)
Flatten(ss) == IF ss = <<>> THEN <<>> ELSE Head(ss) \o Flatten(Tail(ss))

\* Indices of s, in order, that hold token t.
Positions(s, t) == {i \in 1..Len(s) : s[i] = t}
Min(S) == CHOOSE x \in S : \A y \in S : x <= y
Max(S) == CHOOSE x \in S : \A y \in S : x >= y

\* ================================================================ model text
(* A model text is a sequence of tokens.  "S" and "E" are the delimiters   *)
(* ---FILE_CHANGES_START--- and ---FILE_CHANGES_END---; "x" is text that   *)
(* is no JSON; the others are pieces of JSON:                              *)
(*   "W"  {"changes":[c]}     the wrapper object the prompt asks for       *)
(*   "A"  [c]                 an array of one change, without the wrapper  *)
(*   "O"  c                   an object that has no member `changes`       *)
(*   "N"  null                                                             *)
(*   "["  "]"                 a lone bracket                               *)
(* Expand gives the JSON lexemes of a token.                               *)
TextTokens == {"S", "E", "x", "W", "A", "O", "N", "[", "]"}

Expand(tok) ==
  CASE tok = "W" -> <<"{changes:", "[", "obj", "]", "}">>
    [] tok = "A" -> <<"[", "obj", "]">>
    [] tok = "O" -> <<"obj">>
    [] tok = "N" -> <<"null">>
    [] OTHER -> <<tok>>

Lexemes(toks) == Flatten([i \in 1..Len(toks) |-> Expand(toks[i])])

\* ------------------------------------------------------------ JSON.parse
(* JSON.parse over lexemes (commas and white space are left out):          *)
(*   value ::= null | obj | [ value* ] | {changes: value }                 *)
(* The result is [ok, v, n]: whether a value was read, the value, and the  *)
(* index after it.                                                         *)
JsonFail == [ok |-> FALSE, v |-> [k |-> "error"], n |-> 0]

RECURSIVE ParseValue(_, _), ParseItems(_, _, _)
ParseValue(s, i) ==
  IF i > Len(s) THEN JsonFail
  ELSE CASE s[i] = "null" -> [ok |-> TRUE, v |-> [k |-> "null"], n |-> i + 1]
         [] s[i] = "obj" -> [ok |-> TRUE, v |-> [k |-> "object"], n |-> i + 1]
         [] s[i] = "[" -> ParseItems(s, i + 1, <<>>)
         [] s[i] = "{changes:" ->
              LET r == ParseValue(s, i + 1)
              IN  IF r.ok /\ r.n <= Len(s) /\ s[r.n] = "}"
                  THEN [ok |-> TRUE, v |-> [k |-> "wrapper", changes |-> r.v], n |-> r.n + 1]
                  ELSE JsonFail
         [] OTHER -> JsonFail

ParseItems(s, i, acc) ==
  IF i > Len(s) THEN JsonFail
  ELSE IF s[i] = "]"
       THEN [ok |-> TRUE, v |-> [k |-> "array", items |-> acc], n |-> i + 1]
       ELSE LET r == ParseValue(s, i)
            IN  IF r.ok THEN ParseItems(s, r.n, Append(acc, r.v)) ELSE JsonFail

\* JSON.parse(text): [threw |-> TRUE] on a SyntaxError, else the value.
JSONparse(lex) ==
  LET r == ParseValue(lex, 1)
  IN  IF r.ok /\ r.n = Len(lex) + 1
      THEN [threw |-> FALSE, v |-> r.v]
      ELSE [threw |-> TRUE, v |-> [k |-> "error"]]

\* -------------------------------------------------------- the delimiters
(* content.match(/---FILE_CHANGES_START---([\s\S]*?)---FILE_CHANGES_END---/)*)
(* The match starts at the leftmost START that has an END after it, and    *)
(* the lazy group stops at the first END after that START.  An END follows *)
(* the leftmost START whenever it follows any START.                       *)
HasMatch(toks) ==
  /\ Positions(toks, "S") # {}
  /\ \E j \in Positions(toks, "E") : j > Min(Positions(toks, "S"))

\* match[1]: the tokens between the two delimiters.
MatchGroup(toks) ==
  LET i == Min(Positions(toks, "S"))
      j == Min({e \in Positions(toks, "E") : e > i})
  IN  SubSeq(toks, i + 1, j - 1)

(* match[1].match(/\[[\s\S]*\]/): greedy, from the first "[" to the last   *)
(* "]" of the group, when the last "]" comes after the first "[".          *)
HasArrayMatch(lex) ==
  /\ Positions(lex, "[") # {}
  /\ \E j \in Positions(lex, "]") : j > Min(Positions(lex, "["))

ArrayMatch(lex) == SubSeq(lex, Min(Positions(lex, "[")), Max(Positions(lex, "]")))

\* ------------------------------------------------------ parseFileChanges
EmptyList == [k |-> "array", items |-> <<>>]
Returned(v) == [threw |-> FALSE, value |-> v]
Thrown == [threw |-> TRUE, value |-> [k |-> "error"]]
NotCalled == [threw |-> FALSE, value |-> [k |-> "not called"]]

(* `json.changes || []` for a parsed value json.  Reading a property of    *)
(* null throws a TypeError; a value without the member, or with a falsy    *)
(* one (null), gives [].                                                   *)
ChangesThrows(json) == json.k = "null"
ChangesOrEmpty(json) ==
  IF json.k = "wrapper" /\ json.changes.k # "null" THEN json.changes ELSE EmptyList

\* A parser without the try: what JSON.parse or the read of `changes` throws gets out.
parseFileChangesNoTry(toks) ==
  IF ~HasMatch(toks) THEN Returned(EmptyList)
  ELSE LET p == JSONparse(Lexemes(MatchGroup(toks)))
       IN  IF p.threw \/ ChangesThrows(p.v) THEN Thrown ELSE Returned(ChangesOrEmpty(p.v))

\* src/src/services/claude.ts: one try around JSON.parse and json.changes.
parseFileChangesTs(toks) ==
  IF ~HasMatch(toks) THEN Returned(EmptyList)
  ELSE LET p == JSONparse(Lexemes(MatchGroup(toks)))
       IN  IF p.threw \/ ChangesThrows(p.v)
           THEN Returned(EmptyList)
           ELSE Returned(ChangesOrEmpty(p.v))

(* src/api/index.js: when the first try fails, a second try parses the     *)
(* bracketed part of the group and returns it.                             *)
parseFileChangesJs(toks) ==
  IF ~HasMatch(toks) THEN Returned(EmptyList)
  ELSE LET lex == Lexemes(MatchGroup(toks))
           p == JSONparse(lex)
       IN  IF ~p.threw /\ ~ChangesThrows(p.v)
           THEN Returned(ChangesOrEmpty(p.v))
           ELSE IF HasArrayMatch(lex) /\ ~JSONparse(ArrayMatch(lex)).threw
                THEN Returned(JSONparse(ArrayMatch(lex)).v)
                ELSE Returned(EmptyList)

parseFileChanges(file, toks) ==
  IF file = "index.js" THEN parseFileChangesJs(toks) ELSE parseFileChangesTs(toks)

\* ============================================================ values
Undefined == "undefined"
\* JavaScript truthiness of an optional string: undefined and "" are falsy.
Truthy(x) == x \notin {Undefined, ""}

(* Tokens.  A storage token or a bearer token is absent, an opaque string  *)
(* (such as a OneDrive access token) or a JWT, which records the secret it *)
(* was signed with, its payload and whether its exp has passed.            *)
NoToken == [t |-> "undefined"]
OpaqueToken == [t |-> "opaque"]
Jwt(secret, userId, expired) ==
  [t |-> "jwt", signedWith |-> secret, userId |-> userId, expired |-> expired]
Present(tok) == tok.t # "undefined"

(* jwt.verify(token, secret): the signature is checked before exp; a       *)
(* string that is no JWT, or a wrong signature, is a JsonWebTokenError.    *)
jwtVerify(tok, secret) ==
  IF tok.t # "jwt" \/ tok.signedWith # secret THEN [err |-> "invalid", userId |-> Undefined]
  ELSE IF tok.expired THEN [err |-> "expired", userId |-> Undefined]
  ELSE [err |-> "none", userId |-> tok.userId]

\* ================================================================ chat
ChatFiles == {"chat.ts", "index.js"}

\* The iteration cap of the tool loop.
MaxIterations(file) == IF file = "index.js" THEN MAX_ITERATIONS ELSE MAX_TOOL_ITERATIONS

\* The tools offered to the model.
FILE_TOOLS(file) ==
  IF file = "index.js" THEN {"read_file", "search_files"}
  ELSE {"read_file", "read_multiple_files", "search_files"}

\* The names a model may put in a tool_use block: the tools and a stranger.
ToolNames == {"read_file", "read_multiple_files", "search_files", "delete_file"}

(* A tool_use block as the model sends it.  arg abstracts the input: 0 is  *)
(* an input whose use throws (a null input, a missing query or paths), and *)
(* for read_multiple_files a positive arg is the number of paths.          *)
ToolCallChoices ==
  {[name |-> n, arg |-> a] : n \in ToolNames, a \in 0..MaxPaths} \ 
  {c \in [name : ToolNames, arg : 0..MaxPaths] :
      \/ c.name # "read_multiple_files" /\ c.arg > 1
      \/ c.name = "delete_file" /\ c.arg = 0}

\* The texts a model reply may carry: one without a block, one with a good block.
ReplyTexts == {<<"x">>, <<"x", "S", "W", "E">>}

\* --- request fields with their defaults (chat.ts:286-298, index.js:1667-1678)
EnableTools(file, b) ==
  IF b.enableTools = Undefined THEN file = "chat.ts" ELSE b.enableTools = "true"
StorageType(file, b) ==
  IF b.storageType = Undefined /\ file = "chat.ts" THEN "onedrive" ELSE b.storageType
Stream(file, b) == file = "chat.ts" /\ b.stream

\* --- the LLM client
\* A client that prefers the server's key to the one it is given.
createClientServerFirst(apiKey, e) ==
  IF Truthy(e.ANTHROPIC_API_KEY) THEN e.ANTHROPIC_API_KEY ELSE apiKey

\* createClient(apiKey): new Anthropic({apiKey: apiKey || process.env.ANTHROPIC_API_KEY})
createClient(apiKey, e) == IF Truthy(apiKey) THEN apiKey ELSE e.ANTHROPIC_API_KEY
\* defaultClient = createClient()
defaultClient(e) == createClient(Undefined, e)
(* The key an LLM call is made with.  chat.ts passes `apiKey || undefined` *)
(* as options.apiKey, and claude.ts takes createClient(apiKey) when it is  *)
(* truthy and defaultClient otherwise; index.js uses                       *)
(* `apiKey || process.env.ANTHROPIC_API_KEY`.                              *)
LlmKey(file, b, e) ==
  IF file = "index.js"
  THEN (IF Truthy(b.apiKey) THEN b.apiKey ELSE e.ANTHROPIC_API_KEY)
  ELSE LET optionsApiKey == IF Truthy(b.apiKey) THEN b.apiKey ELSE Undefined
       IN  IF Truthy(optionsApiKey) THEN createClient(optionsApiKey, e) ELSE defaultClient(e)

\* `tools:` of an LLM request.
ToolsOffered(file, b) ==
  IF file = "index.js"
  THEN (IF EnableTools(file, b) /\ Present(b.storageToken) THEN FILE_TOOLS(file) ELSE {})
  ELSE (IF EnableTools(file, b) THEN FILE_TOOLS(file) ELSE {})

\* --- messages: a role and content blocks; a block is its type and the tool id
TextBlock == [type |-> "text", id |-> <<0, 0>>]
ToolUseBlock(id) == [type |-> "tool_use", id |-> id]
\* A tool result as executeToolCall returns it.
ToolResult(id, kind, tool, isError) ==
  [toolCallId |-> id, result |-> kind, tool |-> tool, isError |-> isError]
NoResult == ToolResult(<<0, 0>>, "none", "none", FALSE)
(* The tool_result block built from a tool result (claude.ts:281-286,       *)
(* index.js:1769-1773).  A block of a message is kept as its type and its  *)
(* tool id; the text of a result is in turn.                               *)
ToolResultBlock(r) == [type |-> "tool_result", id |-> r.toolCallId]
Message(role, blocks) == [role |-> role, content |-> blocks]

(* The messages of an LLM request.  claude.ts appends the tool results it  *)
(* is given as one user message; index.js sends apiMessages as they are.   *)
RequestMessages(file, msgs, toolResults) ==
  IF file = "chat.ts" /\ Len(toolResults) > 0
  THEN Append(msgs, Message("user", [i \in 1..Len(toolResults) |-> ToolResultBlock(toolResults[i])]))
  ELSE msgs

LlmRequest(file, b, e, msgs, toolResults) ==
  [kind |-> "llm", key |-> LlmKey(file, b, e), tools |-> ToolsOffered(file, b),
   messages |-> RequestMessages(file, msgs, toolResults)]

FetchRequest(id, dest, tok) == [kind |-> "fetch", call |-> id, dest |-> dest, token |-> tok]

\* --- the response
NoRes == [headersSent |-> FALSE, ended |-> FALSE, status |-> 0,
          error |-> "", iterations |-> 0, fileChanges |-> <<>>]
\* res.status(code).json({error})
JsonError(code, msg) ==
  [headersSent |-> TRUE, ended |-> TRUE, status |-> code,
   error |-> msg, iterations |-> 0, fileChanges |-> <<>>]
\* res.json({content, fileChanges, iterations})
JsonResult(its, changes) ==
  [headersSent |-> TRUE, ended |-> TRUE, status |-> 200,
   error |-> "", iterations |-> its, fileChanges |-> changes]

\* --- the handler's state as one record, so that its steps compose
ChatState ==
  [pc |-> pc, iterations |-> iterations, allFileChanges |-> allFileChanges,
   apiMessages |-> apiMessages, resolvedStorageToken |-> resolvedStorageToken,
   turn |-> turn, inflight |-> inflight, llmCalls |-> llmCalls, res |-> res, sse |-> sse]

SetChatState(st) ==
  /\ pc' = st.pc
  /\ iterations' = st.iterations
  /\ allFileChanges' = st.allFileChanges
  /\ apiMessages' = st.apiMessages
  /\ resolvedStorageToken' = st.resolvedStorageToken
  /\ turn' = st.turn
  /\ inflight' = st.inflight
  /\ llmCalls' = st.llmCalls
  /\ res' = st.res
  /\ sse' = st.sse

\* return res.status(code).json({error}) before anything was written
Reject(st, code, msg) == [st EXCEPT !.pc = "done", !.inflight = {}, !.res = JsonError(code, msg)]

(* The catch of the route (chat.ts:473-488, index.js:1800-1803).  Once SSE *)
(* data was written the headers are sent, res.json throws inside the catch *)
(* and nothing ends the response.                                          *)
CatchError(st, code, msg) ==
  IF st.res.headersSent
  THEN [st EXCEPT !.pc = "done", !.inflight = {}]
  ELSE Reject(st, code, msg)

\* An end of the loop that writes the complete event and leaves the stream open.
FinishWithoutEnd(file, b, st) ==
  IF Stream(file, b)
  THEN [st EXCEPT !.pc = "done", !.inflight = {},
          !.sse = Append(@, "complete"),
          !.res = [JsonResult(st.iterations, st.allFileChanges)
                     EXCEPT !.headersSent = TRUE, !.ended = FALSE]]
  ELSE [st EXCEPT !.pc = "done", !.inflight = {},
          !.res = JsonResult(st.iterations, st.allFileChanges)]

(* After the loop: the `complete` event and res.end() when streaming       *)
(* (chat.ts:417-424), res.json otherwise (chat.ts:467-471,                 *)
(* index.js:1795-1799).                                                    *)
Finish(file, b, st) ==
  IF Stream(file, b)
  THEN [st EXCEPT !.pc = "done", !.inflight = {},
          !.sse = Append(@, "complete"),
          !.res = [JsonResult(st.iterations, st.allFileChanges) EXCEPT !.headersSent = TRUE]]
  ELSE [st EXCEPT !.pc = "done", !.inflight = {},
          !.res = JsonResult(st.iterations, st.allFileChanges)]

\* A loop whose guard lets one more iteration through.
LoopTopInclusive(file, b, e, st, toolResults) ==
  IF st.iterations <= MaxIterations(file)
  THEN [st EXCEPT !.pc = "llm",
          !.iterations = @ + 1,
          !.llmCalls = @ + 1,
          !.turn = <<>>,
          !.sse = <<>>,
          !.inflight = {LlmRequest(file, b, e, st.apiMessages, toolResults)}]
  ELSE Finish(file, b, st)

(* The top of the loop (chat.ts:367-381 and 427-434, index.js:1703-1726):  *)
(* while below the cap, count the iteration and make the LLM call.         *)
LoopTop(file, b, e, st, toolResults) ==
  IF st.iterations < MaxIterations(file)
  THEN [st EXCEPT !.pc = "llm",
          !.iterations = @ + 1,
          !.llmCalls = @ + 1,
          !.turn = <<>>,
          !.sse = <<>>,
          !.inflight = {LlmRequest(file, b, e, st.apiMessages, toolResults)}]
  ELSE Finish(file, b, st)

\* ----------------------------------------------------- executeToolCall
(* An element of turn: one tool call, where it is, whether a fetch made    *)
(* for it has failed, and what it returned.                                *)
Call(id, c, st, dest, left, result) ==
  [id |-> id, name |-> c.name, arg |-> c.arg, st |-> st, dest |-> dest,
   left |-> left, failed |-> FALSE, result |-> result]
NewCall(id, c) == Call(id, c, "new", "none", 0, NoResult)
Fetching(el, dest, left) == [el EXCEPT !.st = "fetch", !.dest = dest, !.left = left]
Returns(file, el, kind, isError) ==
  [el EXCEPT !.st = "done", !.dest = "none", !.left = 0,
             !.result = ToolResult(el.id, kind, el.name, file = "chat.ts" /\ isError)]
\* A catch that does not flag its result.
CaughtUnflagged(file, el) == Returns(file, el, "ErrorExecuting", FALSE)

(* The catch of executeToolCall: `Error executing <tool>: <message>`,      *)
(* with isError in chat.ts (chat.ts:274-280, index.js:1627-1629).          *)
Caught(file, el) == Returns(file, el, "ErrorExecuting", TRUE)

\* Where chat.ts reads a file from (chat.ts:167-181).
FileDestTs(b) ==
  IF StorageType("chat.ts", b) = "github" /\ b.github THEN "github" ELSE "onedrive"

\* An executeToolCall that reads a file for whatever tool it does not know.
StartToolAnyName(el, b) ==
  CASE el.name = "read_multiple_files" ->
         IF el.arg = 0 THEN Caught("chat.ts", el) ELSE Fetching(el, FileDestTs(b), el.arg)
    [] el.name = "search_files" ->
         IF ~b.fileList /\ StorageType("chat.ts", b) = "onedrive"
         THEN Fetching(el, "onedrive-list", 1)
         ELSE IF el.arg = 0 THEN Caught("chat.ts", el)
              ELSE Returns("chat.ts", el, "Search", FALSE)
    [] OTHER ->
         IF el.arg = 0 THEN Caught("chat.ts", el) ELSE Fetching(el, FileDestTs(b), 1)

(* chat.ts: executeToolCall up to its first await.  read_file and          *)
(* read_multiple_files fetch a file; search_files lists the drive when no  *)
(* file list came with the request and the storage is OneDrive, before it  *)
(* touches the query; any other name returns `Unknown tool`.               *)
StartToolTs(el, b) ==
  CASE el.name = "read_file" ->
         IF el.arg = 0 THEN Caught("chat.ts", el) ELSE Fetching(el, FileDestTs(b), 1)
    [] el.name = "read_multiple_files" ->
         IF el.arg = 0 THEN Caught("chat.ts", el) ELSE Fetching(el, FileDestTs(b), el.arg)
    [] el.name = "search_files" ->
         IF ~b.fileList /\ StorageType("chat.ts", b) = "onedrive"
         THEN Fetching(el, "onedrive-list", 1)
         ELSE IF el.arg = 0 THEN Caught("chat.ts", el)
              ELSE Returns("chat.ts", el, "Search", FALSE)
    [] OTHER -> Returns("chat.ts", el, "UnknownTool", TRUE)

(* chat.ts: executeToolCall when its fetch returns.  A failed read_file    *)
(* throws into the catch; read_multiple_files catches each file's failure  *)
(* itself and goes on to the next path.                                    *)
FetchDoneTs(el, ok) ==
  CASE el.name = "read_file" ->
         IF ok THEN Returns("chat.ts", el, "File", FALSE) ELSE Caught("chat.ts", el)
    [] el.name = "read_multiple_files" ->
         IF el.left > 1 THEN [el EXCEPT !.left = @ - 1]
         ELSE Returns("chat.ts", el, "Files", FALSE)
    [] OTHER ->
         IF ok /\ el.arg # 0 THEN Returns("chat.ts", el, "Search", FALSE)
         ELSE Caught("chat.ts", el)

(* index.js: executeToolCall up to its first await.  It knows read_file    *)
(* and search_files; search_files never fetches.                           *)
StartToolJs(el, b) ==
  CASE el.name = "read_file" ->
         IF el.arg = 0 THEN Caught("index.js", el)
         ELSE IF b.storageType = "onedrive" THEN Fetching(el, "onedrive", 1)
         ELSE IF b.storageType = "github" /\ b.github THEN Fetching(el, "github", 1)
         ELSE Returns("index.js", el, "UnknownStorageType", FALSE)
    [] el.name = "search_files" ->
         IF el.arg = 0 THEN Caught("index.js", el)
         ELSE Returns("index.js", el, "Search", FALSE)
    [] OTHER -> Returns("index.js", el, "UnknownTool", FALSE)

FetchDoneJs(el, ok) ==
  IF ok THEN Returns("index.js", el, "File", FALSE) ELSE Caught("index.js", el)

\* The fetches of the calls of a turn that are waiting for one.
Fetches(t, tok) == {FetchRequest(t[i].id, t[i].dest, tok) : i \in {j \in 1..Len(t) : t[j].st = "fetch"}}
AllDone(t) == \A i \in 1..Len(t) : t[i].st = "done"
Results(t) == [i \in 1..Len(t) |-> t[i].result]

\* An SSE write; the window starts again after an iteration's tool_results.
Write(log, ev) ==
  IF log # <<>> /\ log[Len(log)] = "tool_results" THEN <<ev>> ELSE Append(log, ev)

\* ------------------------------------------------------- the tool loop
(* chat.ts, after `await Promise.all(...)` (chat.ts:391-410 and 444-460):  *)
(* keep the results for the next request, tell a streaming client, append  *)
(* the assistant text, continue.                                           *)
JoinTs(b, e, st) ==
  LET st1 == [st EXCEPT
                !.sse = IF Stream("chat.ts", b) THEN Write(@, "tool_results") ELSE @,
                !.apiMessages = Append(@, Message("assistant", <<TextBlock>>))]
  IN  LoopTop("chat.ts", b, e, st1, Results(st.turn))

(* chat.ts: Promise.all(result.toolCalls.map(tc => executeToolCall(...))). *)
(* map calls executeToolCall for every tool call before any of them is     *)
(* awaited, so each runs to its first await at once.                       *)
StartTurnTs(b, st, calls) ==
  LET t == [i \in 1..Len(calls) |-> StartToolTs(NewCall(<<st.iterations, i>>, calls[i]), b)]
  IN  [st EXCEPT !.pc = "tools", !.turn = t, !.inflight = Fetches(t, st.resolvedStorageToken)]

\* A loop that starts call i and all the calls after it without awaiting any.
StartAllJs(b, st, i) ==
  LET t == [j \in 1..Len(st.turn) |->
              IF j >= i THEN StartToolJs(st.turn[j], b) ELSE st.turn[j]]
  IN  [st EXCEPT !.pc = "tools", !.turn = t, !.inflight = Fetches(t, b.storageToken)]

(* index.js: `for (const toolUse of toolUseBlocks) await executeToolCall`  *)
(* (index.js:1759-1774): call i runs to its first await.                   *)
StartCallJs(b, st, i) ==
  LET el == StartToolJs(st.turn[i], b)
  IN  [st EXCEPT !.pc = "tools", !.turn[i] = el,
         !.inflight = Fetches(<<el>>, b.storageToken)]

(* index.js, after the loop over the tool calls (index.js:1776-1783): the  *)
(* assistant content and the tool results are appended to apiMessages.     *)
JoinJs(b, e, st) ==
  LET t == st.turn
      use == [j \in 1..Len(t) |-> ToolUseBlock(t[j].id)]
      results == [j \in 1..Len(t) |-> ToolResultBlock(t[j].result)]
      st1 == [st EXCEPT !.apiMessages =
                @ \o <<Message("assistant", <<TextBlock>> \o use), Message("user", results)>>]
  IN  LoopTop("index.js", b, e, st1, <<>>)

\* index.js: the handler resumes after `await executeToolCall` of a call.
ResumeJs(b, e, st) ==
  LET new == {i \in 1..Len(st.turn) : st.turn[i].st = "new"}
  IN  IF new = {} THEN JoinJs(b, e, st) ELSE StartCallJs(b, st, Min(new))

\* The file changes a reply adds to allFileChanges (`fileChanges.length > 0`).
NewChanges(file, text) ==
  LET v == parseFileChanges(IF file = "index.js" THEN "index.js" ELSE "claude.ts", text).value
  IN  IF v.k = "array" THEN v.items ELSE <<>>

(* chat.ts, the LLM call returned a message (chat.ts:383-415 and 436-465,  *)
(* with claude.ts:302-315 and 397-414).                                    *)
OnReplyTs(b, e, st, r) ==
  LET told == Stream("chat.ts", b) /\ r.calls # <<>>
      st1 == [st EXCEPT !.inflight = {},
                !.allFileChanges = @ \o NewChanges("chat.ts", r.text),
                !.sse = IF told THEN Write(@, "tool_calls") ELSE @,
                !.res.headersSent = @ \/ told]
  IN  IF r.stop = "tool_use" /\ r.calls # <<>>
      THEN StartTurnTs(b, st1, r.calls)
      ELSE Finish("chat.ts", b, st1)

\* index.js, the LLM call returned 200 (index.js:1739-1788).
OnReplyJs(b, e, st, r) ==
  LET st1 == [st EXCEPT !.inflight = {},
                !.allFileChanges = @ \o NewChanges("index.js", r.text)]
  IN  IF r.stop = "tool_use" /\ r.calls # <<>> /\ Present(b.storageToken)
      THEN StartCallJs(b,
             [st1 EXCEPT !.turn = [i \in 1..Len(r.calls) |-> NewCall(<<st.iterations, i>>, r.calls[i])]],
             1)
      ELSE Finish("index.js", b, st1)

\* The status the handler answers when the LLM call fails.
ErrorStatus(kind) ==
  CASE kind = "API key" -> 401 [] kind = "rate limit" -> 429 [] OTHER -> 500

\* ------------------------------------------------------- chat: the request
GitHubToken(u) == [t |-> "github", userId |-> u]

\* The first messages of the conversation: messages.map(m => ({role, content})).
FirstMessages == <<Message("user", <<TextBlock>>)>>

(* chat.ts:284-359, up to the first await: the checks of the body, and for *)
(* GitHub storage the verification of storageToken as a JWT.               *)
ReceiveTs(b, e, st) ==
  IF b.messages # "array" THEN Reject(st, 400, "Messages array is required")
  ELSE IF EnableTools("chat.ts", b) /\ ~Present(b.storageToken)
  THEN Reject(st, 400, "Storage token required for tool use")
  ELSE IF EnableTools("chat.ts", b) /\ StorageType("chat.ts", b) = "github"
  THEN IF ~Truthy(e.JWT_SECRET) THEN Reject(st, 500, "JWT not configured")
       ELSE LET v == jwtVerify(b.storageToken, e.JWT_SECRET)
            IN  IF v.err = "expired" THEN Reject(st, 401, "Token expired")
                ELSE IF v.err = "invalid" THEN Reject(st, 403, "Invalid authentication token")
                ELSE [st EXCEPT !.pc = "db"]
  ELSE LoopTop("chat.ts", b, e,
         [st EXCEPT !.resolvedStorageToken = b.storageToken, !.apiMessages = FirstMessages],
         <<>>)

\* A handler that goes on with the storage token itself when no GitHub token is stored.
DbReturnUnchecked(b, e, us, st, threw) ==
  LET u == jwtVerify(b.storageToken, e.JWT_SECRET).userId
  IN  IF threw THEN Reject(st, 403, "Invalid authentication token")
      ELSE LoopTop("chat.ts", b, e,
             [st EXCEPT !.resolvedStorageToken =
                          IF us[u].exists /\ us[u].github THEN GitHubToken(u) ELSE b.storageToken,
                        !.apiMessages = FirstMessages],
             <<>>)

(* chat.ts:324-339: getGitHubToken returned the user's row (or none), or   *)
(* the query threw, which the catch around it answers as an invalid token. *)
DbReturnTs(b, e, us, st, threw) ==
  LET u == jwtVerify(b.storageToken, e.JWT_SECRET).userId
  IN  IF threw THEN Reject(st, 403, "Invalid authentication token")
      ELSE IF ~us[u].exists \/ ~us[u].github THEN Reject(st, 400, "GitHub not connected")
      ELSE LoopTop("chat.ts", b, e,
             [st EXCEPT !.resolvedStorageToken = GitHubToken(u), !.apiMessages = FirstMessages],
             <<>>)

\* index.js:1665-1701.
ReceiveJs(b, e, st) ==
  IF b.messages # "array" THEN Reject(st, 400, "Messages array is required")
  ELSE IF ~Truthy(LlmKey("index.js", b, e)) THEN Reject(st, 400, "API key is required")
  ELSE LoopTop("index.js", b, e,
         [st EXCEPT !.resolvedStorageToken = b.storageToken, !.apiMessages = FirstMessages],
         <<>>)

\* --------------------------------------------------------- chat: actions
(* The replies a model may give to a request: a stop reason, a text and    *)
(* tool_use blocks, the latter only when the request offered tools.        *)
Replies(file, st, rq) ==
  {r \in [stop : {"tool_use", "end_turn"}, text : ReplyTexts,
          calls : IF rq.tools = {} THEN {<<>>} ELSE SeqsUpTo(ToolCallChoices, MaxCalls)] :
     Len(st.allFileChanges) + Len(NewChanges(file, r.text)) <= MaxAllChanges}

ChunksWritten(log) ==
  IF log # <<>> /\ log[Len(log)] = "tool_results" THEN 0
  ELSE Cardinality(Positions(log, "chunk"))

\* The request arrives.
ChatReceive ==
  /\ pc = "idle"
  /\ SetChatState(IF impl = "index.js" THEN ReceiveJs(body, env, ChatState)
                  ELSE ReceiveTs(body, env, ChatState))
  /\ UNCHANGED <<exceptChat, body>>

\* The user row comes back from the database.
ChatDbReturn ==
  /\ pc = "db"
  /\ \E threw \in BOOLEAN : SetChatState(DbReturnTs(body, env, users, ChatState, threw))
  /\ UNCHANGED <<exceptChat, body>>

\* A text delta of the streamed reply: onChunk writes a chunk event (chat.ts:373-375).
LlmChunk ==
  /\ pc = "llm"
  /\ Stream(impl, body)
  /\ ChunksWritten(sse) < MaxChunks
  /\ sse' = Write(sse, "chunk")
  /\ res' = [res EXCEPT !.headersSent = TRUE]
  /\ UNCHANGED <<exceptChat, body, pc, iterations, allFileChanges, apiMessages,
                 resolvedStorageToken, turn, inflight, llmCalls>>

\* The LLM call, made with a key, returns a message.
LlmReturn ==
  /\ pc = "llm"
  /\ \E rq \in inflight :
       /\ Truthy(rq.key)
       /\ \E r \in Replies(impl, ChatState, rq) :
            SetChatState(IF impl = "index.js" THEN OnReplyJs(body, env, ChatState, r)
                       ELSE OnReplyTs(body, env, ChatState, r))
  /\ UNCHANGED <<exceptChat, body>>

(* The LLM call fails: the SDK throws (chat.ts), or the API answers with   *)
(* an error status or fetch throws (index.js:1728-1737 and 1800-1803).     *)
LlmFail ==
  /\ pc = "llm"
  /\ \E kind \in {"API key", "rate limit", "other"} :
       SetChatState(CatchError(ChatState, ErrorStatus(kind), kind))
  /\ UNCHANGED <<exceptChat, body>>

\* One of the outstanding fetches returns, with the file or with a failure.
FetchReturn ==
  /\ pc = "tools"
  /\ \E i \in 1..Len(turn), ok \in BOOLEAN :
       /\ turn[i].st = "fetch"
       /\ LET el == [turn[i] EXCEPT !.failed = @ \/ ~ok]
              t == [turn EXCEPT ![i] = IF impl = "index.js" THEN FetchDoneJs(el, ok)
                                       ELSE FetchDoneTs(el, ok)]
          IN  SetChatState([ChatState EXCEPT !.turn = t,
                              !.inflight = Fetches(t, resolvedStorageToken)])
  /\ UNCHANGED <<exceptChat, body>>

(* The handler resumes from its await on the tool calls: in chat.ts when   *)
(* every call of the turn has returned, in index.js when the call it       *)
(* awaits has.                                                             *)
ToolsResume ==
  /\ pc = "tools"
  /\ inflight = {}
  /\ SetChatState(IF impl = "index.js" THEN ResumeJs(body, env, ChatState)
                  ELSE JoinTs(body, env, ChatState))
  /\ UNCHANGED <<exceptChat, body>>

NextChat ==
  ChatReceive \/ ChatDbReturn \/ LlmChunk \/ LlmReturn \/ LlmFail \/ FetchReturn \/ ToolsResume

\* ------------------------------------------------------ chat: the requests
UserIds == {"u1", "u2"}
\* u1 has connected GitHub, u2 has not.
ChatUsers == [u \in UserIds |-> [exists |-> TRUE, github |-> (u = "u1")]]

Env(anthropic, jwt) ==
  [ANTHROPIC_API_KEY |-> anthropic, JWT_SECRET |-> jwt, JWT_REFRESH_SECRET |-> "refresh-secret"]
DefaultEnv == Env("sk-server", "secret")

ApiKeys == {Undefined, "", "sk-user"}

BaseBody ==
  [messages |-> "array", stream |-> FALSE, apiKey |-> Undefined, enableTools |-> "true",
   storageType |-> "onedrive", storageToken |-> OpaqueToken, github |-> FALSE, fileList |-> TRUE]

\* Requests that differ in the API key, under each setting of the server's key.
KeyRequests ==
  {<<[BaseBody EXCEPT !.apiKey = k], Env(a, "secret")>> :
     k \in ApiKeys, a \in {Undefined, "sk-server"}}

(* Requests that differ in the storage they name.  index.js reads neither  *)
(* `stream` nor the storage token as a JWT, so its requests vary less.     *)
StorageRequests(file) ==
  {rq \in {<<[BaseBody EXCEPT !.stream = s, !.enableTools = t.enableTools, !.storageType = t.storageType,
                      !.storageToken = t.storageToken, !.github = t.github,
                      !.fileList = t.fileList], Env("sk-server", j)>> :
     s \in BOOLEAN, j \in {"secret"},
     t \in { [enableTools |-> Undefined, storageType |-> Undefined, storageToken |-> NoToken,
              github |-> FALSE, fileList |-> FALSE],
             [enableTools |-> "false", storageType |-> Undefined, storageToken |-> OpaqueToken,
              github |-> FALSE, fileList |-> FALSE],
             [enableTools |-> "true", storageType |-> "onedrive", storageToken |-> OpaqueToken,
              github |-> FALSE, fileList |-> FALSE],
             [enableTools |-> "true", storageType |-> "github",
              storageToken |-> Jwt("secret", "u1", FALSE), github |-> TRUE, fileList |-> TRUE],
             [enableTools |-> "true", storageType |-> "github",
              storageToken |-> Jwt("secret", "u2", FALSE), github |-> TRUE, fileList |-> TRUE],
             [enableTools |-> "true", storageType |-> "github",
              storageToken |-> Jwt("secret", "u1", TRUE), github |-> TRUE, fileList |-> TRUE],
             [enableTools |-> "true", storageType |-> "github",
              storageToken |-> Jwt("other", "u1", FALSE), github |-> TRUE, fileList |-> TRUE],
             [enableTools |-> "true", storageType |-> "github",
              storageToken |-> OpaqueToken, github |-> TRUE, fileList |-> TRUE] }} :
     file = "index.js" => ~rq[1].stream /\ rq[1].storageToken \in {NoToken, OpaqueToken}}

\* Requests the handler turns away at once.
BadRequests ==
  {<<[BaseBody EXCEPT !.messages = Undefined], DefaultEnv>>,
   <<[BaseBody EXCEPT !.storageType = "github", !.storageToken = Jwt("secret", "u1", FALSE),
                      !.github = TRUE], Env("sk-server", Undefined)>>}

ChatRequests(file) == KeyRequests \cup StorageRequests(file) \cup BadRequests

ChatIdle ==
  /\ body = BaseBody
  /\ pc = "unused"
  /\ iterations = 0
  /\ allFileChanges = <<>>
  /\ apiMessages = <<>>
  /\ resolvedStorageToken = NoToken
  /\ turn = <<>>
  /\ inflight = {}
  /\ llmCalls = 0
  /\ res = NoRes
  /\ sse = <<>>

\* ============================================================ parse actions
ParserFiles == {"claude.ts", "index.js"}

NoAnswer == [status |-> 0, fileChanges |-> <<>>]

ParseIdle == content = <<>> /\ parsed = NotCalled /\ chatAnswer = NoAnswer

\* The call parseFileChanges(content) on the text of a model reply.
ParseCall ==
  /\ parsed = NotCalled
  /\ parsed' = parseFileChanges(impl, content)
  /\ UNCHANGED <<exceptParse, content, chatAnswer>>

(* What the caller answers.  chat() of claude.ts returns the value as the  *)
(* fileChanges of the result, which the route sends with res.json; the     *)
(* handler of index.js appends it to allFileChanges when its length is     *)
(* positive.  An exception out of the parser reaches the route's catch,    *)
(* which answers 500.                                                      *)
FileChangesSent(file, value) ==
  IF value.k = "array" THEN value.items
  ELSE IF file = "index.js" THEN <<>> ELSE <<value>>

ParseRespond ==
  /\ parsed # NotCalled
  /\ chatAnswer = NoAnswer
  /\ chatAnswer' = IF parsed.threw
                   THEN [status |-> 500, fileChanges |-> <<>>]
                   ELSE [status |-> 200, fileChanges |-> FileChangesSent(impl, parsed.value)]
  /\ UNCHANGED <<exceptParse, content, parsed>>

NextParse == ParseCall \/ ParseRespond

\* ============================================================ GitHub commit
\* --- paths: a path is a sequence of characters, "/" one of them
FilePaths == {<<"a">>, <<"b">>, <<"/", "a">>}
\* file.path.startsWith('/') ? file.path.slice(1) : file.path
StripSlash(p) == IF p # <<>> /\ Head(p) = "/" THEN Tail(p) ELSE p

\* --- GitHub's side of the Git Data API
\* blobData.sha of an answer without one: undefined.
NoSha == 0
(* A repository: its commits (a tree and parents each), its trees (for     *)
(* each path the blob it holds), its blobs (the content of each) and the   *)
(* head of the branch.  The sha of an object is its index in its store.    *)
InitGithub ==
  [commits |-> << [tree |-> 1, parents |-> <<>>] >>, trees |-> << [p \in {<<"a">>} |-> 1] >>,
   blobs |-> <<"v0">>, head |-> 1, pushes |-> 0]

NoContent == Undefined
GhCall(op, sha, file, base, items, parents) ==
  [op |-> op, sha |-> sha, file |-> file, base_tree |-> base, tree |-> items,
   parents |-> parents, content |-> NoContent]
\* POST /git/blobs with body {content, encoding: 'utf-8'}
BlobCall(file, text) ==
  [GhCall("POST blob", NoSha, file, NoSha, <<>>, <<>>) EXCEPT !.content = text]
NoCall == GhCall("none", NoSha, 0, NoSha, <<>>, <<>>)
GhAnswer(outcome, status, sha, tree) ==
  [outcome |-> outcome, status |-> status, sha |-> sha, tree |-> tree]

\* Whether GitHub can accept the call as the repository stands.
Acceptable(gh, c) ==
  CASE c.op = "GET commit" -> c.sha \in 1..Len(gh.commits)
    [] c.op = "POST tree" ->
         /\ c.base_tree \in 1..Len(gh.trees)
         /\ \A i \in 1..Len(c.tree) : c.tree[i].sha \in 1..Len(gh.blobs)
    [] c.op = "POST commit" ->
         /\ c.sha \in 1..Len(gh.trees)
         /\ \A i \in 1..Len(c.parents) : c.parents[i] \in 1..Len(gh.commits)
    [] c.op = "PATCH ref" ->
         \* without `force`, the new head has to descend from the present one
         /\ c.sha \in 1..Len(gh.commits)
         /\ gh.commits[c.sha].parents = <<gh.head>>
    [] OTHER -> TRUE

\* The outcomes of a call: accepted, refused with a status, or no answer at all.
Outcomes(gh, c) == (IF Acceptable(gh, c) THEN {"ok"} ELSE {}) \cup {"refused", "threw"}

(* The tree GitHub makes of a base tree and tree items: every entry of the *)
(* base tree stays unless an item has its path; an item adds or replaces   *)
(* the entry of its path (the last item of a path counts).  An entry is    *)
(* removed only by an item with sha null, which the handler never sends.   *)
ItemsOf(c, p) == {i \in 1..Len(c.tree) : c.tree[i].path = p}
TreeOf(gh, c) ==
  LET base == gh.trees[c.base_tree]
  IN  [p \in DOMAIN base \cup {c.tree[i].path : i \in 1..Len(c.tree)} |->
         IF ItemsOf(c, p) # {} THEN c.tree[Max(ItemsOf(c, p))].sha ELSE base[p]]

\* The repository after an accepted call.
Applied(gh, c) ==
  CASE c.op = "POST blob" -> [gh EXCEPT !.blobs = Append(@, c.content)]
    [] c.op = "POST tree" -> [gh EXCEPT !.trees = Append(@, TreeOf(gh, c))]
    [] c.op = "POST commit" ->
         [gh EXCEPT !.commits = Append(@, [tree |-> c.sha, parents |-> c.parents])]
    [] c.op = "PATCH ref" -> [gh EXCEPT !.head = c.sha]
    [] OTHER -> gh

\* What GitHub answers to an accepted call, the repository being gh after it.
Accepted(gh, c) ==
  CASE c.op = "GET ref" -> GhAnswer("ok", 200, gh.head, NoSha)
    [] c.op = "GET commit" -> GhAnswer("ok", 200, c.sha, gh.commits[c.sha].tree)
    [] c.op = "POST blob" -> GhAnswer("ok", 201, Len(gh.blobs), NoSha)
    [] c.op = "POST tree" -> GhAnswer("ok", 201, Len(gh.trees), NoSha)
    [] c.op = "POST commit" -> GhAnswer("ok", 201, Len(gh.commits), c.sha)
    [] OTHER -> GhAnswer("ok", 200, c.sha, NoSha)

Refused(c) == GhAnswer("refused", IF c.op \in {"GET ref", "GET commit"} THEN 404 ELSE 422, NoSha, NoSha)
FetchThrew == GhAnswer("threw", 0, NoSha, NoSha)

\* --- the handler of POST /api/github/commit (index.js:854-990)
CommitRes(status, sha) == [status |-> status, sha |-> sha]
CommitStart ==
  [pc |-> "idle", call |-> NoCall, log |-> <<>>, answers |-> <<>>,
   currentCommitSha |-> NoSha, currentTreeSha |-> NoSha, treeItems |-> <<>>,
   newTreeSha |-> NoSha, newCommitSha |-> NoSha, res |-> CommitRes(0, NoSha)]

\* return res.status(code).json(...)
CommitAnswer(st, status, sha) ==
  [st EXCEPT !.pc = "done", !.call = NoCall, !.res = CommitRes(status, sha)]

\* await fetch(...): the call goes out and the handler waits for its answer.
Issue(st, c) == [st EXCEPT !.pc = "wait", !.call = c, !.log = Append(@, c)]

\* The files of the request from index `from` on that are not deletions.
Kept(files, from) == {i \in from..Len(files) : files[i].action # "delete"}

(* The loop over the files (index.js:899-925): a deletion is skipped, the  *)
(* next other file gets its blob; after the last file the tree is created  *)
(* on the tree of the commit read before (index.js:928-938).               *)
NextBlobOrTree(st, files, from) ==
  IF Kept(files, from) # {}
  THEN Issue(st, BlobCall(Min(Kept(files, from)), files[Min(Kept(files, from))].content))
  ELSE Issue(st, GhCall("POST tree", NoSha, 0, st.currentTreeSha, st.treeItems, <<>>))

\* treeItems.push({path, mode, type, sha: blobData.sha})
TreeItem(file, sha) == [path |-> StripSlash(file.path), sha |-> sha]

\* A commit made without a parent.
NewCommitOrphan(st, treeSha) == GhCall("POST commit", treeSha, 0, NoSha, <<>>, <<>>)

\* The body of the call that creates the commit (index.js:943-954).
NewCommit(st, treeSha) == GhCall("POST commit", treeSha, 0, NoSha, <<>>, <<st.currentCommitSha>>)

(* The handler goes on with the answer r to its call.  Only the answers to *)
(* the first and to the last call are looked at for their status; of the   *)
(* others the handler reads the JSON, where a refusal has no sha and, for   *)
(* the commit read, no tree, whose `.sha` then throws into the catch.      *)
OnAnswer(st0, files, r) ==
  LET st == [st0 EXCEPT !.answers = Append(@, r)]
      c == st0.call
  IN  IF r.outcome = "threw" THEN CommitAnswer(st, 500, NoSha)
      ELSE CASE c.op = "GET ref" ->
                  IF r.outcome # "ok" THEN CommitAnswer(st, r.status, NoSha)
                  ELSE Issue([st EXCEPT !.currentCommitSha = r.sha],
                             GhCall("GET commit", r.sha, 0, NoSha, <<>>, <<>>))
             [] c.op = "GET commit" ->
                  IF r.outcome # "ok" THEN CommitAnswer(st, 500, NoSha)
                  ELSE NextBlobOrTree([st EXCEPT !.currentTreeSha = r.tree], files, 1)
             [] c.op = "POST blob" ->
                  NextBlobOrTree([st EXCEPT !.treeItems = Append(@, TreeItem(files[c.file], r.sha))],
                                 files, c.file + 1)
             [] c.op = "POST tree" ->
                  Issue([st EXCEPT !.newTreeSha = r.sha], NewCommit(st, r.sha))
             [] c.op = "POST commit" ->
                  Issue([st EXCEPT !.newCommitSha = r.sha],
                        GhCall("PATCH ref", r.sha, 0, NoSha, <<>>, <<>>))
             [] OTHER ->
                  IF r.outcome # "ok" THEN CommitAnswer(st, r.status, NoSha)
                  ELSE CommitAnswer(st, 200, st.newCommitSha)

\* --- actions
\* The request arrives, behind authenticateToken (index.js:854-864).
CommitReceive ==
  /\ commit.pc = "idle"
  /\ commit' = IF ~commitReq.fields \/ ~commitReq.filesIsArray
               THEN CommitAnswer(commit, 400, NoSha)
               ELSE [commit EXCEPT !.pc = "db"]
  /\ UNCHANGED <<exceptCommit, commitReq, github>>

\* db.user.findUnique returns the user, or throws (index.js:863-874).
CommitDbReturn ==
  /\ commit.pc = "db"
  /\ \E threw \in BOOLEAN :
       commit' = IF threw THEN CommitAnswer(commit, 500, NoSha)
                 ELSE IF ~users[commitReq.userId].github THEN CommitAnswer(commit, 400, NoSha)
                 ELSE Issue(commit, GhCall("GET ref", NoSha, 0, NoSha, <<>>, <<>>))
  /\ UNCHANGED <<exceptCommit, commitReq, github>>

\* GitHub answers the call in flight.
GithubAnswer ==
  /\ commit.pc = "wait"
  /\ \E o \in Outcomes(github, commit.call) :
       IF o = "ok"
       THEN /\ github' = Applied(github, commit.call)
            /\ commit' = OnAnswer(commit, commitReq.files, Accepted(github', commit.call))
       ELSE /\ github' = github
            /\ commit' = OnAnswer(commit, commitReq.files,
                                  IF o = "refused" THEN Refused(commit.call) ELSE FetchThrew)
  /\ UNCHANGED <<exceptCommit, commitReq>>

\* Someone else pushes a commit to the branch while the request is served.
OtherPush ==
  /\ commit.pc \in {"db", "wait"}
  /\ github.pushes < MaxPushes
  /\ github' = [github EXCEPT
                  !.blobs = Append(@, "theirs"),
                  !.trees = Append(@, [p \in DOMAIN github.trees[github.commits[github.head].tree]
                                                \cup {<<"b">>} |->
                                         IF p = <<"b">> THEN Len(github.blobs) + 1
                                         ELSE github.trees[github.commits[github.head].tree][p]]),
                  !.commits = Append(@, [tree |-> Len(github.trees) + 1, parents |-> <<github.head>>]),
                  !.head = Len(github.commits) + 1,
                  !.pushes = @ + 1]
  /\ UNCHANGED <<exceptCommit, commitReq, commit>>

NextCommit == CommitReceive \/ CommitDbReturn \/ GithubAnswer \/ OtherPush

\* The files of a request: a deletion has no content.
FileContents == {"x", "y"}
FileChoices ==
  [action : {"modify"}, path : FilePaths, content : FileContents]
    \cup [action : {"delete"}, path : FilePaths, content : {NoContent}]
CommitRequests ==
  {[fields |-> TRUE, filesIsArray |-> TRUE, userId |-> u, files |-> f] :
     u \in UserIds, f \in SeqsUpTo(FileChoices, MaxFiles)}
  \cup {[fields |-> FALSE, filesIsArray |-> TRUE, userId |-> "u1", files |-> <<>>],
        [fields |-> TRUE, filesIsArray |-> FALSE, userId |-> "u1", files |-> <<>>]}

CommitIdle ==
  /\ commitReq = [fields |-> TRUE, filesIsArray |-> TRUE, userId |-> "u1", files |-> <<>>]
  /\ commit = [CommitStart EXCEPT !.pc = "unused"]
  /\ github = InitGithub

\* ============================================================ Stripe webhook
\* --- the body the route posts to the backend; JSON.stringify drops what is undefined
Null == "null"
Relay(userId, tier, customer, subscription, status, cancelAtPeriodEnd) ==
  [userId |-> userId, tier |-> tier, stripeCustomerId |-> customer,
   stripeSubscriptionId |-> subscription, status |-> status,
   cancelAtPeriodEnd |-> cancelAtPeriodEnd]

\* A relay that passes Stripe's status on as it is.
StripeStatus(s) == s

\* subscription.status === "active" ? "active" : === "past_due" ? "past_due" : "cancelled"
RelayedStatus(s) == IF s = "active" THEN "active" ELSE IF s = "past_due" THEN "past_due" ELSE "cancelled"

HookRes(status) == [status |-> status]
HookStart == [pc |-> "idle", relays |-> <<>>, retrieved |-> 0, res |-> HookRes(0), backend |-> <<>>]

HookAnswer(st, status) == [st EXCEPT !.pc = "done", !.res = HookRes(status)]
\* await fetch(`${BACKEND_URL}/webhooks/stripe/subscription`, {method: "POST", ...})
PostRelay(st, b) == [st EXCEPT !.pc = "relay", !.relays = Append(@, b)]

(* route.ts:11-133 up to the first await after the event is constructed:   *)
(* a signature that does not verify is answered 400; an event of a type    *)
(* the switch has no case for, or without what its case asks for, is       *)
(* answered {received: true}.                                              *)
HookReceiveEvent(st, ev) ==
  IF ~ev.signed THEN HookAnswer(st, 400)
  ELSE CASE ev.type = "checkout.session.completed" ->
              IF Truthy(ev.userId) /\ Truthy(ev.tier)
              THEN PostRelay(st, Relay(ev.userId, ev.tier, ev.customer, ev.subscription,
                                       "active", Undefined))
              ELSE HookAnswer(st, 200)
         [] ev.type = "customer.subscription.updated" ->
              IF Truthy(ev.userId)
              THEN PostRelay(st, Relay(ev.userId, ev.tier, Undefined, ev.id,
                                       RelayedStatus(ev.status), ev.cancelAtPeriodEnd))
              ELSE HookAnswer(st, 200)
         [] ev.type = "customer.subscription.deleted" ->
              IF Truthy(ev.userId)
              THEN PostRelay(st, Relay(ev.userId, "free", Undefined, Null, "active", Undefined))
              ELSE HookAnswer(st, 200)
         [] ev.type = "invoice.payment_failed" ->
              IF Truthy(ev.subscription) THEN [st EXCEPT !.pc = "retrieve", !.retrieved = @ + 1]
              ELSE HookAnswer(st, 200)
         [] OTHER -> HookAnswer(st, 200)

(* route.ts:104-121: stripe.subscriptions.retrieve returned the            *)
(* subscription of the invoice, whose metadata names the user, or threw.   *)
HookRetrieved(st, ev, threw) ==
  IF threw THEN HookAnswer(st, 500)
  ELSE IF Truthy(ev.subscriptionUserId)
  THEN PostRelay(st, Relay(ev.subscriptionUserId, Undefined, Undefined, Undefined,
                           "past_due", Undefined))
  ELSE HookAnswer(st, 200)

\* --- the backend's POST /webhooks/stripe/subscription (index.js:1430-1470)
NoSubscription == [exists |-> FALSE, tier |-> "", status |-> "", stripeCustomerId |-> Undefined,
                   stripeSubscriptionId |-> Undefined, cancelAtPeriodEnd |-> Undefined]

\* The `update:` of the upsert: a member is written when its guard lets it.
Updated(row, b) ==
  [row EXCEPT
     !.tier = IF Truthy(b.tier) THEN b.tier ELSE @,
     !.status = IF Truthy(b.status) THEN b.status ELSE @,
     !.stripeCustomerId = IF Truthy(b.stripeCustomerId) THEN b.stripeCustomerId ELSE @,
     !.stripeSubscriptionId = IF b.stripeSubscriptionId # Undefined THEN b.stripeSubscriptionId ELSE @,
     !.cancelAtPeriodEnd = IF b.cancelAtPeriodEnd # Undefined THEN b.cancelAtPeriodEnd ELSE @]

\* The `create:` of the upsert.
Created(b) ==
  [exists |-> TRUE,
   tier |-> IF Truthy(b.tier) THEN b.tier ELSE "free",
   status |-> IF Truthy(b.status) THEN b.status ELSE "active",
   stripeCustomerId |-> b.stripeCustomerId,
   stripeSubscriptionId |-> b.stripeSubscriptionId,
   cancelAtPeriodEnd |-> Undefined]

Upsert(table, b) ==
  [table EXCEPT ![b.userId] = IF @.exists THEN Updated(@, b) ELSE Created(b)]

(* The status the backend answers to a relay sent with the header          *)
(* `x-webhook-secret: sent`, its own INTERNAL_WEBHOOK_SECRET being `own`.  *)
BackendStatus(sent, own, b, threw) ==
  IF sent # own THEN 401
  ELSE IF ~Truthy(b.userId) THEN 400
  ELSE IF threw THEN 500 ELSE 200

\* process.env.INTERNAL_WEBHOOK_SECRET || ""
SentSecret(routeSecret) == IF Truthy(routeSecret) THEN routeSecret ELSE ""

\* --- actions
HookReceive ==
  /\ hook.pc = "idle"
  /\ hook' = HookReceiveEvent(hook, event)
  /\ UNCHANGED <<exceptHook, event, subs>>

StripeRetrieveReturn ==
  /\ hook.pc = "retrieve"
  /\ \E threw \in BOOLEAN : hook' = HookRetrieved(hook, event, threw)
  /\ UNCHANGED <<exceptHook, event, subs>>

(* The backend handles the relay and the route, which does not look at the *)
(* answer, answers {received: true}.                                       *)
BackendAnswer ==
  /\ hook.pc = "relay"
  /\ \E threw \in BOOLEAN :
       LET b == hook.relays[Len(hook.relays)]
           status == BackendStatus(SentSecret(event.routeSecret), event.backendSecret, b, threw)
       IN  /\ subs' = IF status = 200 THEN Upsert(subs, b) ELSE subs
           /\ hook' = [HookAnswer(hook, 200) EXCEPT !.backend = Append(@, status)]
  /\ UNCHANGED <<exceptHook, event>>

\* The relay does not reach the backend: fetch throws and the catch answers 500.
RelayFails ==
  /\ hook.pc = "relay"
  /\ hook' = HookAnswer(hook, 500)
  /\ UNCHANGED <<exceptHook, event, subs>>

NextWebhook == HookReceive \/ StripeRetrieveReturn \/ BackendAnswer \/ RelayFails

EventTypes ==
  {"checkout.session.completed", "customer.subscription.updated",
   "customer.subscription.deleted", "invoice.payment_failed", "customer.created"}
StripeStatuses == {"active", "past_due", "canceled", "trialing"}

\* The events: what the handler reads of an event, and the two deployments' secrets.
Events ==
  [signed : BOOLEAN, type : EventTypes, userId : {Undefined, "u1"}, tier : {Undefined, "pro"},
   customer : {"cus_1"}, subscription : {Undefined, "sub_1"}, id : {"sub_1"},
   status : StripeStatuses, cancelAtPeriodEnd : {"false"}, subscriptionUserId : {Undefined, "u2"},
   routeSecret : {Undefined, "whsec"}, backendSecret : {Undefined, "whsec"}]

SubscriptionTables ==
  {[u \in UserIds |-> IF u \in have
                      THEN [Created(Relay(u, "pro", "cus_0", "sub_0", "active", Undefined))
                              EXCEPT !.cancelAtPeriodEnd = "false"]
                      ELSE NoSubscription] : have \in {{}, UserIds}}

HookIdle ==
  /\ event = [signed |-> FALSE, type |-> "customer.created", userId |-> Undefined,
              tier |-> Undefined, customer |-> "cus_1", subscription |-> Undefined,
              id |-> "sub_1", status |-> "active", cancelAtPeriodEnd |-> "false",
              subscriptionUserId |-> Undefined, routeSecret |-> Undefined,
              backendSecret |-> Undefined]
  /\ hook = [HookStart EXCEPT !.pc = "unused"]
  /\ subs = [u \in UserIds |-> NoSubscription]

\* ============================================================ authenticateToken
\* --- the Authorization header: absent, or its parts between single spaces
Word(w) == [t |-> "word", v |-> w]
NoHeader == [present |-> FALSE, parts |-> <<>>]
Header(parts) == [present |-> TRUE, parts |-> parts]

\* jwt.sign(payload, secret, {expiresIn}), presented `age` minutes after it was signed.
SignedToken(secret, userId, expiresIn, age) ==
  [t |-> "jwt", signedWith |-> secret, userId |-> userId, expired |-> age >= expiresIn,
   expiresIn |-> expiresIn, age |-> age]

\* !token
NoTokenGiven(tok) == tok \in {NoToken, Word("")}

(* middleware/auth.ts:21:                                                  *)
(* authHeader?.startsWith('Bearer ') ? authHeader.substring(7) : null.     *)
(* What follows `Bearer ` is the token; with more parts it is a string     *)
(* with spaces in it, which is no JWT.                                     *)
BearerTokenTs(h) ==
  IF h.present /\ Len(h.parts) >= 2 /\ h.parts[1] = Word("Bearer")
  THEN (IF Len(h.parts) = 2 THEN h.parts[2] ELSE OpaqueToken)
  ELSE NoToken

\* index.js:46: authHeader && authHeader.split(' ')[1]
BearerTokenJs(h) ==
  IF h.present /\ Len(h.parts) >= 2 THEN h.parts[2] ELSE NoToken

\* index.js:34: process.env.JWT_SECRET || 'dev-secret'
JWT_SECRET(e) == IF Truthy(e.JWT_SECRET) THEN e.JWT_SECRET ELSE "dev-secret"

\* What the middleware does with a request: an answer, or req.user and next().
AuthRes(status, error) == [status |-> status, error |-> error]
Denied(st, status, error) == [st EXCEPT !.pc = "done", !.res = AuthRes(status, error)]
CallsNext(st, userId) == [st EXCEPT !.pc = "next", !.user = userId, !.nextCalls = @ + 1]

\* src/src/middleware/auth.ts:16-46
authenticateTokenTs(st, h, e) ==
  LET token == BearerTokenTs(h)
  IN  IF NoTokenGiven(token) THEN Denied(st, 401, "Access token required")
      ELSE IF ~Truthy(e.JWT_SECRET) THEN Denied(st, 500, "JWT not configured")
      ELSE LET v == jwtVerify(token, e.JWT_SECRET)
           IN  IF v.err = "none" THEN CallsNext(st, v.userId)
               ELSE IF v.err = "expired" THEN Denied(st, 401, "Token expired")
               ELSE Denied(st, 403, "Invalid token")

\* src/api/index.js:45-60
authenticateTokenJs(st, h, e) ==
  LET token == BearerTokenJs(h)
  IN  IF NoTokenGiven(token) THEN Denied(st, 401, "Access token required")
      ELSE LET v == jwtVerify(token, JWT_SECRET(e))
           IN  IF v.err = "none" THEN CallsNext(st, v.userId)
               ELSE Denied(st, 403, "Invalid or expired token")

AuthStart ==
  [pc |-> "idle", res |-> AuthRes(0, ""), user |-> Undefined, nextCalls |-> 0, handled |-> 0]

\* --- actions
\* A request reaches a route that authenticateToken guards.
AuthCall ==
  /\ auth.pc = "idle"
  /\ auth' = IF impl = "index.js" THEN authenticateTokenJs(auth, authReq, env)
             ELSE authenticateTokenTs(auth, authReq, env)
  /\ UNCHANGED <<exceptAuth, authReq>>

\* next() has run the handler of the route.
RouteHandler ==
  /\ auth.pc = "next"
  /\ auth' = [auth EXCEPT !.pc = "done", !.handled = @ + 1, !.res = AuthRes(200, "")]
  /\ UNCHANGED <<exceptAuth, authReq>>

NextAuth == AuthCall \/ RouteHandler

AuthFiles == {"middleware/auth.ts", "index.js"}
\* The tokens a client may present: its own, fresh or expired, and forged ones.
BearerTokens ==
  {SignedToken("secret", "u1", AccessMinutes, 5), SignedToken("secret", "u1", AccessMinutes, 30),
   SignedToken("other", "u1", AccessMinutes, 5), SignedToken("dev-secret", "u1", AccessMinutes, 5),
   SignedToken("other", "u1", AccessMinutes, 30), OpaqueToken, Word("")}
Headers ==
  {NoHeader, Header(<<>>), Header(<<Word("Bearer")>>)}
  \cup {Header(<<tok>>) : tok \in BearerTokens}
  \cup {Header(<<Word(w), tok>>) : w \in {"Bearer", "bearer", "Basic"}, tok \in BearerTokens}
  \cup {Header(<<Word("Bearer"), Word(""), tok>>) : tok \in BearerTokens}

AuthIdle ==
  /\ authReq = NoHeader
  /\ auth = [AuthStart EXCEPT !.pc = "unused"]

\* ============================================================ login
\* --- a member of the body: absent, a string (its characters), or a number
Absent == [k |-> "undefined", v |-> <<>>]
Str(s) == [k |-> "string", v |-> s]
Num == [k |-> "number", v |-> <<"1">>]
\* !x
Falsy(x) == x.k = "undefined" \/ (x.k = "string" /\ x.v = <<>>)
\* s.toLowerCase()
toLowerCase(s) == [i \in 1..Len(s) |-> IF s[i] = "A" THEN "a" ELSE IF s[i] = "G" THEN "g" ELSE s[i]]

\* --- the user table as login reads it
NullHash == [k |-> "null", of |-> <<>>]
\* bcrypt.hash(password)
Hash(p) == [k |-> "hash", of |-> p]
NoUser == [exists |-> FALSE, id |-> Undefined, passwordHash |-> NullHash]
User(id, hash) == [exists |-> TRUE, id |-> id, passwordHash |-> hash]
\* prisma.user.findUnique({where: {email}})
findUnique(table, email) == IF email \in DOMAIN table THEN table[email] ELSE NoUser

(* bcrypt.compare(password, hash) of bcryptjs: it rejects when either      *)
(* argument is not a string, and else tells whether the hash is the        *)
(* password's.                                                             *)
bcryptCompare(password, hash) ==
  IF password.k # "string" \/ hash.k # "hash" THEN "threw"
  ELSE IF hash.of = password.v THEN "true" ELSE "false"

\* --- the answer
LoginRes(status, error, accessToken, refreshToken) ==
  [status |-> status, error |-> error, accessToken |-> accessToken, refreshToken |-> refreshToken]
LoginError(st, status, error) ==
  [st EXCEPT !.pc = "done", !.res = LoginRes(status, error, NoToken, NoToken)]
LoginStart ==
  [pc |-> "idle", user |-> NoUser, dbThrew |-> FALSE, res |-> LoginRes(0, "", NoToken, NoToken)]

LoginFiles == {"routes/auth.ts", "server.ts", "index.js"}
\* The message of the catch of the route.
LoginFailed(file) == IF file = "index.js" THEN "Failed to login" ELSE "Login failed"

(* The handler up to `await findUnique`: the check of the two members, and *)
(* email.toLowerCase(), which throws when email is no string.              *)
LoginReceived(file, st, b) ==
  IF Falsy(b.email) \/ Falsy(b.password)
  THEN LoginError(st, 400, "Email and password are required")
  ELSE IF b.email.k # "string" THEN LoginError(st, 500, LoginFailed(file))
  ELSE [st EXCEPT !.pc = "db"]

(* findUnique returned, or threw.  server.ts:318-322 and index.js:160-162  *)
(* turn away a user without a password hash; routes/auth.ts has no such    *)
(* check and goes on to bcrypt.compare.                                    *)
LoginUserFound(file, st, u, threw) ==
  IF threw THEN [LoginError(st, 500, LoginFailed(file)) EXCEPT !.dbThrew = TRUE]
  ELSE IF ~u.exists THEN LoginError(st, 401, "Invalid email or password")
  ELSE IF file # "routes/auth.ts" /\ u.passwordHash.k = "null"
  THEN LoginError(st, 401, "Please sign in with Google")
  ELSE [st EXCEPT !.pc = "bcrypt", !.user = u]

(* generateAccessToken and generateRefreshToken: middleware/auth.ts throws *)
(* without the secret, index.js has a default for each.                    *)
TokenSecrets(file, e) ==
  IF file = "index.js"
  THEN [access |-> JWT_SECRET(e),
        refresh |-> IF Truthy(e.JWT_REFRESH_SECRET) THEN e.JWT_REFRESH_SECRET
                    ELSE "dev-refresh-secret"]
  ELSE [access |-> e.JWT_SECRET, refresh |-> e.JWT_REFRESH_SECRET]

\* bcrypt.compare returned, and the rest of the handler.
LoginCompared(file, st, b, e) ==
  LET valid == bcryptCompare(b.password, st.user.passwordHash)
      s == TokenSecrets(file, e)
  IN  IF valid = "threw" THEN LoginError(st, 500, LoginFailed(file))
      ELSE IF valid = "false" THEN LoginError(st, 401, "Invalid email or password")
      ELSE IF ~Truthy(s.access) \/ ~Truthy(s.refresh) THEN LoginError(st, 500, LoginFailed(file))
      ELSE [st EXCEPT !.pc = "done",
              !.res = LoginRes(200, "", SignedToken(s.access, st.user.id, AccessMinutes, 0),
                               SignedToken(s.refresh, st.user.id, RefreshMinutes, 0))]

\* --- actions
LoginReceive ==
  /\ login.pc = "idle"
  /\ login' = LoginReceived(impl, login, loginReq)
  /\ UNCHANGED <<exceptLogin, loginReq, accounts>>

LoginDbReturn ==
  /\ login.pc = "db"
  /\ \E threw \in BOOLEAN :
       login' = LoginUserFound(impl, login,
                               findUnique(accounts, toLowerCase(loginReq.email.v)), threw)
  /\ UNCHANGED <<exceptLogin, loginReq, accounts>>

LoginBcryptReturn ==
  /\ login.pc = "bcrypt"
  /\ login' = LoginCompared(impl, login, loginReq, env)
  /\ UNCHANGED <<exceptLogin, loginReq, accounts>>

NextLogin == LoginReceive \/ LoginDbReturn \/ LoginBcryptReturn

\* The accounts: "a" signed up with the password "p", "g" with Google only.
Accounts ==
  [email \in {<<"a">>, <<"g">>} |->
     IF email = <<"a">> THEN User("u1", Hash(<<"p">>)) ELSE User("u2", NullHash)]
LoginEmails == {Absent, Str(<<>>), Str(<<"a">>), Str(<<"A">>), Str(<<"G">>), Str(<<"n">>), Num}
LoginPasswords == {Absent, Str(<<>>), Str(<<"p">>), Str(<<"q">>), Num}

LoginIdle ==
  /\ loginReq = [email |-> Absent, password |-> Absent]
  /\ login = [LoginStart EXCEPT !.pc = "unused"]
  /\ accounts = Accounts

\* ============================================================ refresh
(* A refresh token: a JWT whose payload holds, next to the userId, the     *)
(* tier the user had when it was signed.                                   *)
TieredToken(secret, userId, tier, expiresIn, age) ==
  [t |-> "jwt", signedWith |-> secret, userId |-> userId, tier |-> tier,
   expired |-> age >= expiresIn, expiresIn |-> expiresIn, age |-> age]

\* --- the user table as refresh reads it: findUnique({where: {id}, include: {subscription}})
NoSubscriptionTier == Undefined
NoMember == [exists |-> FALSE, tier |-> NoSubscriptionTier]
Member(tier) == [exists |-> TRUE, tier |-> tier]
findById(table, id) == IF id \in DOMAIN table THEN table[id] ELSE NoMember

\* The tier of the presented token, carried over into the new ones.
PresentedTier(user, tok) == tok.tier

\* user.subscription?.tier || 'free'
StoredTier(user, tok) == IF Truthy(user.tier) THEN user.tier ELSE "free"

\* --- the answer
RefreshRes(status, error, accessToken, refreshToken) ==
  [status |-> status, error |-> error, accessToken |-> accessToken, refreshToken |-> refreshToken]
RefreshError(st, status, error) ==
  [st EXCEPT !.pc = "done", !.res = RefreshRes(status, error, NoToken, NoToken)]
RefreshStart ==
  [pc |-> "idle", decoded |-> Undefined, dbThrew |-> FALSE, changed |-> FALSE,
   res |-> RefreshRes(0, "", NoToken, NoToken)]

RefreshFiles == {"routes/auth.ts", "server.ts", "index.js"}

(* The handler up to `await findUnique`: a missing token is answered 400;  *)
(* verifyRefreshToken (middleware/auth.ts:65-70) throws without the secret *)
(* and jwt.verify throws on a token that does not verify, and the catch    *)
(* answers 401.                                                            *)
RefreshReceived(file, st, b, e) ==
  IF NoTokenGiven(b.refreshToken) THEN RefreshError(st, 400, "Refresh token required")
  ELSE LET secret == TokenSecrets(file, e).refresh
       IN  IF ~Truthy(secret) THEN RefreshError(st, 401, "Invalid refresh token")
           ELSE LET v == jwtVerify(b.refreshToken, secret)
                IN  IF v.err # "none" THEN RefreshError(st, 401, "Invalid refresh token")
                    ELSE [st EXCEPT !.pc = "db", !.decoded = v.userId]

(* findUnique returned, or threw, and the rest of the handler: the new     *)
(* payload takes the tier from the row just read.                          *)
RefreshUserFound(file, st, b, user, threw, e) ==
  LET s == TokenSecrets(file, e)
      tier == StoredTier(user, b.refreshToken)
  IN  IF threw THEN [RefreshError(st, 401, "Invalid refresh token") EXCEPT !.dbThrew = TRUE]
      ELSE IF ~user.exists THEN RefreshError(st, 401, "User not found")
      ELSE IF ~Truthy(s.access) \/ ~Truthy(s.refresh)
      THEN RefreshError(st, 401, "Invalid refresh token")
      ELSE [st EXCEPT !.pc = "done",
              !.res = RefreshRes(200, "",
                                 TieredToken(s.access, st.decoded, tier, AccessMinutes, 0),
                                 TieredToken(s.refresh, st.decoded, tier, RefreshMinutes, 0))]

\* --- actions
RefreshReceive ==
  /\ refresh.pc = "idle"
  /\ refresh' = RefreshReceived(impl, refresh, refreshReq, env)
  /\ UNCHANGED <<exceptRefresh, refreshReq, members>>

RefreshDbReturn ==
  /\ refresh.pc = "db"
  /\ \E threw \in BOOLEAN :
       refresh' = RefreshUserFound(impl, refresh, refreshReq,
                                   findById(members, refresh.decoded), threw, env)
  /\ UNCHANGED <<exceptRefresh, refreshReq, members>>

(* Meanwhile the subscription of a user changes (the Stripe relay) or the  *)
(* user is deleted; once, while the request waits for the database.        *)
Tiers == {"free", "pro"}
MemberChanges ==
  /\ refresh.pc = "db"
  /\ ~refresh.changed
  /\ \E u \in DOMAIN members, m \in {NoMember} \cup {Member(t) : t \in Tiers} :
       /\ members[u] # m
       /\ members' = [members EXCEPT ![u] = m]
  /\ refresh' = [refresh EXCEPT !.changed = TRUE]
  /\ UNCHANGED <<exceptRefresh, refreshReq>>

NextRefresh == RefreshReceive \/ RefreshDbReturn \/ MemberChanges

\* The tables: u1 with a subscription of some tier or with none, u2 there or not.
MemberTables ==
  {[u \in UserIds |-> IF u = "u1" THEN m1 ELSE m2] :
     m1 \in {Member(t) : t \in Tiers \cup {NoSubscriptionTier}}, m2 \in {NoMember, Member("pro")}}
\* What a client may send as refreshToken.
RefreshTokens ==
  {NoToken, Word(""), OpaqueToken}
  \cup {TieredToken(s, u, t, RefreshMinutes, age) :
          s \in {"refresh-secret", "dev-refresh-secret", "secret"}, u \in UserIds,
          t \in Tiers, age \in {60, RefreshMinutes}}

RefreshIdle ==
  /\ refreshReq = [refreshToken |-> NoToken]
  /\ refresh = [RefreshStart EXCEPT !.pc = "unused"]
  /\ members = [u \in UserIds |-> NoMember]

\* ============================================================ register
\* --- /^[^\s@]+@[^\s@]+\.[^\s@]+$/ over the characters of the model: letters, "@", ".", " "
NoSpaceNoAt(s) == s # <<>> /\ \A i \in 1..Len(s) : s[i] \notin {" ", "@"}
emailRegexTest(s) ==
  \E at \in 1..Len(s), dot \in 1..Len(s) :
    /\ at < dot
    /\ s[at] = "@" /\ s[dot] = "."
    /\ NoSpaceNoAt(SubSeq(s, 1, at - 1))
    /\ NoSpaceNoAt(SubSeq(s, at + 1, dot - 1))
    /\ NoSpaceNoAt(SubSeq(s, dot + 1, Len(s)))

\* A password that is shorter than eight characters counts as long enough.
TooShortNever(p) == FALSE

\* password.length < 8; the length of a number is undefined, and undefined < 8 is false
TooShort(p) == p.k = "string" /\ Len(p.v) < 8

\* --- the user table: a row and the subscription created with it
Row(email, hash, tier, status, mine) ==
  [email |-> email, passwordHash |-> hash, tier |-> tier, status |-> status, mine |-> mine]
Registered(table, email) == \E i \in 1..Len(table) : table[i].email = email

\* --- the answer
RegisterRes(status, error, accessToken, refreshToken) ==
  [status |-> status, error |-> error, accessToken |-> accessToken, refreshToken |-> refreshToken]
RegisterError(st, status, error) ==
  [st EXCEPT !.pc = "done", !.res = RegisterRes(status, error, NoToken, NoToken)]
RegisterStart ==
  [pc |-> "idle", passwordHash |-> NullHash, dbThrew |-> FALSE,
   res |-> RegisterRes(0, "", NoToken, NoToken)]

RegisterFiles == {"routes/auth.ts", "server.ts", "index.js"}

(* The handler up to `await findUnique`: the three checks, and             *)
(* email.toLowerCase(), which throws when email is no string (the regex    *)
(* tests the string a number is converted to, which has no "@").           *)
RegisterReceived(st, b) ==
  IF Falsy(b.email) \/ Falsy(b.password)
  THEN RegisterError(st, 400, "Email and password are required")
  ELSE IF b.email.k # "string" \/ ~emailRegexTest(b.email.v)
  THEN RegisterError(st, 400, "Invalid email format")
  ELSE IF TooShort(b.password)
  THEN RegisterError(st, 400, "Password must be at least 8 characters")
  ELSE [st EXCEPT !.pc = "find"]

\* findUnique({where: {email: email.toLowerCase()}}) returned, or threw.
RegisterUserLooked(st, found, threw) ==
  IF threw THEN [RegisterError(st, 500, "Failed to create account") EXCEPT !.dbThrew = TRUE]
  ELSE IF found THEN RegisterError(st, 409, "Email already registered")
  ELSE [st EXCEPT !.pc = "hash"]

\* bcrypt.hash(password, 12) of bcryptjs returned, or rejected what is no string.
RegisterHashed(st, b) ==
  IF b.password.k # "string" THEN RegisterError(st, 500, "Failed to create account")
  ELSE [st EXCEPT !.pc = "create", !.passwordHash = Hash(b.password.v)]

(* user.create returned the new row, and the rest of the handler: the two  *)
(* tokens, which middleware/auth.ts refuses to sign without its secrets.   *)
RegisterCreated(file, st, id, e) ==
  LET s == TokenSecrets(file, e)
  IN  IF ~Truthy(s.access) \/ ~Truthy(s.refresh)
      THEN RegisterError(st, 500, "Failed to create account")
      ELSE [st EXCEPT !.pc = "done",
              !.res = RegisterRes(201, "", TieredToken(s.access, id, "free", AccessMinutes, 0),
                                  TieredToken(s.refresh, id, "free", RefreshMinutes, 0))]

\* --- actions
RegisterReceive ==
  /\ register.pc = "idle"
  /\ register' = RegisterReceived(register, registerReq)
  /\ UNCHANGED <<exceptRegister, registerReq, registry>>

RegisterDbReturn ==
  /\ register.pc = "find"
  /\ \E threw \in BOOLEAN :
       register' = RegisterUserLooked(register,
                                      Registered(registry, toLowerCase(registerReq.email.v)), threw)
  /\ UNCHANGED <<exceptRegister, registerReq, registry>>

RegisterHashReturn ==
  /\ register.pc = "hash"
  /\ register' = RegisterHashed(register, registerReq)
  /\ UNCHANGED <<exceptRegister, registerReq, registry>>

(* user.create: the column email is unique (findUnique is called on it),   *)
(* so the insert of an address that is there by now throws, as does a      *)
(* database that fails; the catch answers 500.                             *)
RegisterCreateReturn ==
  /\ register.pc = "create"
  /\ LET email == toLowerCase(registerReq.email.v)
     IN  \E threw \in BOOLEAN :
           IF threw \/ Registered(registry, email)
           THEN /\ register' = [RegisterError(register, 500, "Failed to create account")
                                  EXCEPT !.dbThrew = threw]
                /\ registry' = registry
           ELSE /\ registry' = Append(registry, Row(email, register.passwordHash, "free",
                                                    "active", TRUE))
                /\ register' = RegisterCreated(impl, register, Len(registry) + 1, env)
  /\ UNCHANGED <<exceptRegister, registerReq>>

(* Another request registers the same address while this one is between    *)
(* its lookup and its insert.                                              *)
OtherRegisters ==
  /\ register.pc \in {"hash", "create"}
  /\ ~Registered(registry, toLowerCase(registerReq.email.v))
  /\ registry' = Append(registry, Row(toLowerCase(registerReq.email.v), Hash(<<"o">>), "free",
                                      "active", FALSE))
  /\ UNCHANGED <<exceptRegister, registerReq, register>>

NextRegister ==
  RegisterReceive \/ RegisterDbReturn \/ RegisterHashReturn \/ RegisterCreateReturn
    \/ OtherRegisters

\* A password of n characters.
Pw(n) == [i \in 1..n |-> "p"]
RegisterEmails ==
  {Absent, Str(<<>>), Num, Str(<<"a", "@", "b", ".", "c">>), Str(<<"A", "@", "b", ".", "c">>),
   Str(<<"n", "@", "b", ".", "c">>), Str(<<"a", "@", "b">>), Str(<<"a", "b", ".", "c">>),
   Str(<<"a", "@", "@", "b", ".", "c">>), Str(<<"a", " ", "@", "b", ".", "c">>),
   Str(<<"@", "b", ".", "c">>), Str(<<"a", "@", ".", "c">>), Str(<<"a", "@", "b", ".">>),
   Str(<<"a", "@", "b", ".", "c", ".", "d">>)}
RegisterPasswords == {Absent, Str(<<>>), Str(Pw(7)), Str(Pw(8)), Num}
\* The tables: empty, or a@b.c registered, stored in lower case as every route stores it.
Registries ==
  {<<>>, <<Row(<<"a", "@", "b", ".", "c">>, Hash(Pw(8)), "pro", "active", FALSE)>>}

RegisterIdle ==
  /\ registerReq = [email |-> Absent, password |-> Absent]
  /\ register = [RegisterStart EXCEPT !.pc = "unused"]
  /\ registry = <<>>

\* ============================================================ subscription webhook
\* --- POST /webhooks/stripe/subscription of the backend (index.js:1430-1470), called by anyone
BackendRes(status) == [status |-> status]
BackendStart == [pc |-> "idle", res |-> BackendRes(0)]
BackendDone(st, status) == [st EXCEPT !.pc = "done", !.res = BackendRes(status)]

\* webhookSecret !== process.env.INTERNAL_WEBHOOK_SECRET; a header that is absent is undefined
SecretRefused(sent, own) == sent # own

\* The handler up to `await db.subscription.upsert`.
BackendReceived(st, rq, own) ==
  IF SecretRefused(rq.secret, own) THEN BackendDone(st, 401)
  ELSE IF ~Truthy(rq.body.userId) THEN BackendDone(st, 400)
  ELSE [st EXCEPT !.pc = "db"]

\* --- actions
BackendReceive ==
  /\ backend.pc = "idle"
  /\ backend' = BackendReceived(backend, backendReq, internalSecret)
  /\ UNCHANGED <<exceptBackend, backendReq, internalSecret, subscriptions>>

\* The upsert returned, or threw and the catch answers 500.
BackendDbReturn ==
  /\ backend.pc = "db"
  /\ \E threw \in BOOLEAN :
       IF threw THEN /\ backend' = BackendDone(backend, 500)
                     /\ subscriptions' = subscriptions
       ELSE /\ backend' = BackendDone(backend, 200)
            /\ subscriptions' = Upsert(subscriptions, backendReq.body)
  /\ UNCHANGED <<exceptBackend, backendReq, internalSecret>>

NextBackend == BackendReceive \/ BackendDbReturn

\* The header: absent, empty, the secret, a guess.
SecretHeaders == {Undefined, "", "whsec", "guess"}
\* INTERNAL_WEBHOOK_SECRET: not set, set to nothing, set.
InternalSecrets == {Undefined, "", "whsec"}
BackendBodies ==
  {Relay(u, t, Undefined, Undefined, s, Undefined) :
     u \in {Undefined, "u1", "u2"}, t \in {Undefined, "pro"}, s \in {Undefined, "active", "past_due"}}

BackendIdle ==
  /\ backendReq = [secret |-> Undefined,
                   body |-> Relay(Undefined, Undefined, Undefined, Undefined, Undefined, Undefined)]
  /\ internalSecret = Undefined
  /\ backend = [BackendStart EXCEPT !.pc = "unused"]
  /\ subscriptions = [u \in UserIds |-> NoSubscription]

\* ============================================================ Apple sign-in
(* An identity token: a JWT with the key that signed it (Apple's, or       *)
(* someone else's) and, in its payload, sub and perhaps email.             *)
IdentityToken(signedBy, sub, email) ==
  [t |-> "jwt", signedBy |-> signedBy, sub |-> sub, email |-> email]
NoPayload == [decoded |-> FALSE, sub |-> Undefined, email |-> Undefined]
(* jwt.decode(identityToken, {complete: true}): null for what is no JWT,   *)
(* and else the payload as it is written; the signature is not looked at.  *)
jwtDecode(tok) ==
  IF tok.t # "jwt" THEN NoPayload ELSE [decoded |-> TRUE, sub |-> tok.sub, email |-> tok.email]

\* --- the user table
AppleRow(email, appleId, hash) == [email |-> email, appleId |-> appleId, passwordHash |-> hash]
\* findFirst({where: {appleId}}) and findUnique({where: {email}}): the index of the row, or 0
RowWithAppleId(table, appleId) ==
  IF \E i \in 1..Len(table) : table[i].appleId = appleId
  THEN CHOOSE i \in 1..Len(table) : table[i].appleId = appleId ELSE 0
RowWithEmail(table, email) ==
  IF \E i \in 1..Len(table) : table[i].email = email
  THEN CHOOSE i \in 1..Len(table) : table[i].email = email ELSE 0
\* `apple_${appleId}@private.appleid.com`
PrivateRelayEmail(appleId) == "apple_" \o appleId

\* --- the answer
AppleRes(status, accessToken, refreshToken) ==
  [status |-> status, accessToken |-> accessToken, refreshToken |-> refreshToken]
AppleDone(st, status) == [st EXCEPT !.pc = "done", !.res = AppleRes(status, NoToken, NoToken)]
AppleStart ==
  [pc |-> "idle", payload |-> NoPayload, userEmail |-> Undefined, user |-> 0,
   res |-> AppleRes(0, NoToken, NoToken)]

\* const userEmail = tokenEmail || email
UserEmail(payload, b) == IF Truthy(payload.email) THEN payload.email ELSE b.email

\* index.js:307-328: the handler up to `await db.user.findFirst`.
AppleReceived(st, b) ==
  LET decodedToken == jwtDecode(b.identityToken)
  IN  IF NoTokenGiven(b.identityToken) THEN AppleDone(st, 400)
      ELSE IF ~decodedToken.decoded THEN AppleDone(st, 400)
      ELSE IF ~Truthy(decodedToken.sub) THEN AppleDone(st, 400)
      ELSE [st EXCEPT !.pc = "findFirst", !.payload = decodedToken,
                      !.userEmail = UserEmail(decodedToken, b)]

\* index.js:373-386: the tokens are signed for the user the handler holds.
AppleSigned(st, i, e) ==
  LET s == TokenSecrets("index.js", e)
  IN  [st EXCEPT !.pc = "done", !.user = i,
         !.res = AppleRes(200, TieredToken(s.access, i, "free", AccessMinutes, 0),
                          TieredToken(s.refresh, i, "free", RefreshMinutes, 0))]

\* index.js:331-343: findFirst returned the row with the Apple id, or none.
AppleFoundFirst(st, i, e) ==
  IF i # 0 THEN AppleSigned(st, i, e)
  ELSE IF Truthy(st.userEmail) THEN [st EXCEPT !.pc = "findUnique"]
  ELSE [st EXCEPT !.pc = "create"]

\* index.js:338-350: findUnique returned the row with the address, or none.
AppleFoundByEmail(st, i) ==
  IF i # 0 THEN [st EXCEPT !.pc = "update", !.user = i] ELSE [st EXCEPT !.pc = "create"]

\* --- actions: each is the return of one await; what throws is answered 401 by the catch
AppleReceive ==
  /\ apple.pc = "idle"
  /\ apple' = AppleReceived(apple, appleReq)
  /\ UNCHANGED <<exceptApple, appleReq, appleUsers>>

AppleFindFirstReturn ==
  /\ apple.pc = "findFirst"
  /\ \/ apple' = AppleFoundFirst(apple, RowWithAppleId(appleUsers, apple.payload.sub), env)
     \/ apple' = AppleDone(apple, 401)
  /\ UNCHANGED <<exceptApple, appleReq, appleUsers>>

AppleFindUniqueReturn ==
  /\ apple.pc = "findUnique"
  /\ \/ apple' = AppleFoundByEmail(apple, RowWithEmail(appleUsers, apple.userEmail))
     \/ apple' = AppleDone(apple, 401)
  /\ UNCHANGED <<exceptApple, appleReq, appleUsers>>

\* db.user.update({where: {id}, data: {appleId}}): the Apple id is linked to the account.
AppleUpdateReturn ==
  /\ apple.pc = "update"
  /\ \/ /\ appleUsers' = [appleUsers EXCEPT ![apple.user].appleId = apple.payload.sub]
        /\ apple' = AppleSigned(apple, apple.user, env)
     \/ /\ apple' = AppleDone(apple, 401)
        /\ appleUsers' = appleUsers
  /\ UNCHANGED <<exceptApple, appleReq>>

\* db.user.create: a new account with the Apple id.
AppleCreateReturn ==
  /\ apple.pc = "create"
  /\ \/ /\ appleUsers' =
             Append(appleUsers,
                    AppleRow(IF Truthy(apple.userEmail) THEN apple.userEmail
                             ELSE PrivateRelayEmail(apple.payload.sub),
                             apple.payload.sub, NullHash))
        /\ apple' = AppleSigned(apple, Len(appleUsers) + 1, env)
     \/ /\ apple' = AppleDone(apple, 401)
        /\ appleUsers' = appleUsers
  /\ UNCHANGED <<exceptApple, appleReq>>

NextApple ==
  AppleReceive \/ AppleFindFirstReturn \/ AppleFindUniqueReturn \/ AppleUpdateReturn
    \/ AppleCreateReturn

\* The table: a password account "a", and an account "b" that signed in with Apple as ap1.
AppleUsers ==
  <<AppleRow("a", Undefined, Hash(<<"p">>)), AppleRow("b", "ap1", NullHash)>>
Signers == {"apple", "someone"}
IdentityTokens ==
  {NoToken, Word(""), OpaqueToken}
  \cup {IdentityToken(k, sub, email) :
          k \in Signers, sub \in {Undefined, "ap1", "ap2"}, email \in {Undefined, "a", "n"}}
AppleRequests == [identityToken : IdentityTokens, email : {Undefined, "a", "n"}]

AppleIdle ==
  /\ appleReq = [identityToken |-> NoToken, email |-> Undefined]
  /\ apple = [AppleStart EXCEPT !.pc = "unused"]
  /\ appleUsers = <<>>

\* ============================================================ forgot password
(* The same request is served twice, once against a table that has an      *)
(* account under the address and once against a table that has none, so    *)
(* that the two answers can be compared.                                   *)
Worlds == {"account", "none"}

ForgotRes(status, bodyText) == [status |-> status, body |-> bodyText]
ForgotStart == [pc |-> "idle", res |-> ForgotRes(0, ""), dbThrew |-> FALSE, logged |-> NoToken]
ForgotDone(st, r) == [st EXCEPT !.pc = "done", !.res = r]

\* An answer that tells the caller that there is no such account.
NoSuchAccount == ForgotRes(404, "No account with that email")

\* index.js:1058-1060: res.json({message: 'If an account exists, a reset email has been sent'})
MissingUserAnswer == ForgotRes(200, "If an account exists, a reset email has been sent")

ResetMinutes == 60
\* index.js:1062-1066: jwt.sign({userId, purpose: 'password-reset'}, JWT_SECRET, {expiresIn: '1h'})
ResetToken(secret, userId, age) ==
  [t |-> "jwt", signedWith |-> secret, userId |-> userId, purpose |-> "password-reset",
   expired |-> age >= ResetMinutes, expiresIn |-> ResetMinutes, age |-> age]

\* index.js:1045-1052: the handler up to `await findUnique`; email.toLowerCase() throws on a number
ForgotReceived(st, b) ==
  IF Falsy(b.email) THEN ForgotDone(st, ForgotRes(400, "Email is required"))
  ELSE IF b.email.k # "string" THEN ForgotDone(st, ForgotRes(500, "Failed to process request"))
  ELSE [st EXCEPT !.pc = "db"]

(* index.js:1053-1084: findUnique returned, or threw.  For a user the      *)
(* handler signs a reset token (one hour) with JWT_SECRET and logs the     *)
(* reset URL; the answer is the one given when there is no user.           *)
ForgotUserLooked(st, found, userId, threw, e) ==
  IF threw THEN [ForgotDone(st, ForgotRes(500, "Failed to process request")) EXCEPT !.dbThrew = TRUE]
  ELSE IF ~found THEN ForgotDone(st, MissingUserAnswer)
  ELSE [ForgotDone(st, ForgotRes(200, "If an account exists, a reset email has been sent"))
          EXCEPT !.logged = ResetToken(JWT_SECRET(e), userId, 0)]

\* api.ts:290-301: ApiClient.forgotPassword resolves to nothing, or throws data.error
forgotPassword(r) == IF r.status \in 200..299 THEN "resolved" ELSE r.body

\* --- actions
ForgotReceive ==
  /\ \E w \in Worlds :
       /\ forgot[w].pc = "idle"
       /\ forgot' = [forgot EXCEPT ![w] = ForgotReceived(@, forgotReq)]
  /\ UNCHANGED <<exceptForgot, forgotReq, worlds>>

ForgotDbReturn ==
  /\ \E w \in Worlds, threw \in BOOLEAN :
       /\ forgot[w].pc = "db"
       /\ LET email == toLowerCase(forgotReq.email.v)
          IN  forgot' = [forgot EXCEPT
                           ![w] = ForgotUserLooked(@, email \in DOMAIN worlds[w],
                                                   IF email \in DOMAIN worlds[w]
                                                   THEN worlds[w][email] ELSE Undefined,
                                                   threw, env)]
  /\ UNCHANGED <<exceptForgot, forgotReq, worlds>>

NextForgot == ForgotReceive \/ ForgotDbReturn

ForgotEmails == {Absent, Str(<<>>), Num, Str(<<"a">>), Str(<<"A">>), Str(<<"g">>), Str(<<"n">>)}
\* The two tables for a request: they differ in the account under the request's address.
WorldsFor(b) ==
  LET others == [email \in {<<"z">>} |-> "u9"]
      address == IF b.email.k = "string" THEN toLowerCase(b.email.v) ELSE <<"a">>
  IN  [w \in Worlds |->
         IF w = "none" THEN others
         ELSE [email \in {<<"z">>, address} |-> IF email = address THEN "u1" ELSE "u9"]]

ForgotIdle ==
  /\ forgotReq = [email |-> Absent]
  /\ forgot = [w \in Worlds |-> [ForgotStart EXCEPT !.pc = "unused"]]
  /\ worlds = [w \in Worlds |-> <<>>]

\* ============================================================ reset password
(* The kinds of token the server issues.  An access and a refresh token    *)
(* carry the user's payload; a reset token carries                         *)
(* {userId, purpose: 'password-reset'}.                                    *)
TokenKinds == {"access", "refresh", "reset"}
\* decoded.purpose
Purpose(tok) == IF "purpose" \in DOMAIN tok THEN tok.purpose ELSE Undefined

\* index.js:1104: decoded.purpose !== 'password-reset'
WrongPurpose(tok) == Purpose(tok) # "password-reset"

(* What the server of `file` hands out to user u, presented `age` minutes  *)
(* later: generateAccessToken and generateRefreshToken as login, register  *)
(* and refresh call them, and the reset token of /auth/forgot-password,    *)
(* which only index.js has.                                                *)
IssuedTokens(file, e, u, tier, age) ==
  LET s == TokenSecrets(file, e)
  IN  (IF Truthy(s.access) /\ Truthy(s.refresh)
       THEN {[kind |-> "access", tok |-> TieredToken(s.access, u, tier, AccessMinutes, age)],
             [kind |-> "refresh", tok |-> TieredToken(s.refresh, u, tier, RefreshMinutes, age)]}
       ELSE {})
      \cup (IF file = "index.js"
            THEN {[kind |-> "reset", tok |-> ResetToken(JWT_SECRET(e), u, age)]}
            ELSE {})

\* --- the answer
ResetRes(status, bodyText) == [status |-> status, body |-> bodyText]
ResetStart == [pc |-> "idle", decoded |-> Undefined, res |-> ResetRes(0, "")]
ResetDone(st, r) == [st EXCEPT !.pc = "done", !.res = r]

\* index.js:1088-1107: the handler up to `await findUnique`
ResetReceived(st, b, e) ==
  IF NoTokenGiven(b.token) \/ Falsy(b.newPassword)
  THEN ResetDone(st, ResetRes(400, "Token and new password are required"))
  ELSE IF TooShort(b.newPassword)
  THEN ResetDone(st, ResetRes(400, "Password must be at least 8 characters"))
  ELSE LET v == jwtVerify(b.token, JWT_SECRET(e))
       IN  IF v.err # "none" \/ WrongPurpose(b.token)
           THEN ResetDone(st, ResetRes(400, "Invalid or expired reset token"))
           ELSE [st EXCEPT !.pc = "db", !.decoded = v.userId]

\* index.js:1109-1116: findUnique({where: {id: decoded.userId}}) returned, or threw
ResetUserFound(st, user, threw) ==
  IF threw THEN ResetDone(st, ResetRes(500, "Failed to reset password"))
  ELSE IF ~user.exists THEN ResetDone(st, ResetRes(400, "Invalid reset token"))
  ELSE [st EXCEPT !.pc = "update"]

(* index.js:1118-1125: bcrypt.hash, which rejects what is no string, then  *)
(* user.update, which may throw, then the answer.                          *)
ResetUpdated(st, b, threw) ==
  IF b.newPassword.k # "string" \/ threw THEN ResetDone(st, ResetRes(500, "Failed to reset password"))
  ELSE ResetDone(st, ResetRes(200, "Password reset successfully"))

\* --- actions
ResetReceive ==
  /\ reset.pc = "idle"
  /\ reset' = ResetReceived(reset, resetReq, env)
  /\ UNCHANGED <<exceptReset, issued, resetReq, passwords>>

ResetDbReturn ==
  /\ reset.pc = "db"
  /\ \E threw \in BOOLEAN :
       reset' = ResetUserFound(reset, findById(members, reset.decoded), threw)
  /\ UNCHANGED <<exceptReset, issued, resetReq, passwords>>

ResetUpdateReturn ==
  /\ reset.pc = "update"
  /\ \E threw \in BOOLEAN :
       /\ reset' = ResetUpdated(reset, resetReq, threw)
       /\ passwords' = IF reset'.res.status = 200
                       THEN [passwords EXCEPT ![reset.decoded] = Hash(resetReq.newPassword.v)]
                       ELSE passwords
  /\ UNCHANGED <<exceptReset, issued, resetReq>>

NextReset == ResetReceive \/ ResetDbReturn \/ ResetUpdateReturn

(* The same token is sent to the three endpoints: as bearer token of a     *)
(* guarded route, as refreshToken of /auth/refresh and as token of         *)
(* /auth/reset-password.                                                   *)
NextKinds == NextAuth \/ NextRefresh \/ NextReset

KindFiles == {"middleware/auth.ts", "index.js"}
\* Minutes since the token was issued: within every lifetime, past the access token's, past the reset token's.
TokenAges == {5, 30, 90}
NewPasswords == {Absent, Str(Pw(7)), Str(Pw(8)), Num}

ResetIdle ==
  /\ issued = [kind |-> "none", tok |-> NoToken]
  /\ resetReq = [token |-> NoToken, newPassword |-> Absent]
  /\ reset = [ResetStart EXCEPT !.pc = "unused"]
  /\ passwords = [u \in UserIds |-> NullHash]

\* ============================================================ concurrent registrations
(* Several POST /auth/register requests are served at once: each handler   *)
(* runs to its next await, and the awaits of different requests return in  *)
(* any order.  All of them read and write the one user table `registry`.   *)
Requests == 1..2

RaceReceive ==
  /\ \E r \in Requests :
       /\ race[r].pc = "idle"
       /\ race' = [race EXCEPT ![r] = RegisterReceived(@, raceReq[r])]
  /\ UNCHANGED <<exceptRace, raceReq, registerVars>>

RaceDbReturn ==
  /\ \E r \in Requests, threw \in BOOLEAN :
       /\ race[r].pc = "find"
       /\ race' = [race EXCEPT
                     ![r] = RegisterUserLooked(@, Registered(registry,
                                                             toLowerCase(raceReq[r].email.v)),
                                               threw)]
  /\ UNCHANGED <<exceptRace, raceReq, registerVars>>

RaceHashReturn ==
  /\ \E r \in Requests :
       /\ race[r].pc = "hash"
       /\ race' = [race EXCEPT ![r] = RegisterHashed(@, raceReq[r])]
  /\ UNCHANGED <<exceptRace, raceReq, registerVars>>

(* user.create of one request: the insert of an address that another       *)
(* request has inserted by now violates the unique column and throws.      *)
RaceCreateReturn ==
  /\ \E r \in Requests, threw \in BOOLEAN :
       /\ race[r].pc = "create"
       /\ LET email == toLowerCase(raceReq[r].email.v)
          IN  IF threw \/ Registered(registry, email)
              THEN /\ race' = [race EXCEPT
                                 ![r] = [RegisterError(@, 500, "Failed to create account")
                                           EXCEPT !.dbThrew = threw]]
                   /\ registry' = registry
              ELSE /\ registry' = Append(registry, Row(email, race[r].passwordHash, "free",
                                                       "active", TRUE))
                   /\ race' = [race EXCEPT
                                 ![r] = RegisterCreated(impl, @, Len(registry) + 1, env)]
  /\ UNCHANGED <<exceptRace, raceReq, registerReq, register>>

NextRace == RaceReceive \/ RaceDbReturn \/ RaceHashReturn \/ RaceCreateReturn

\* The addresses of the requests: one address in two letter cases, and another one.
RaceEmails ==
  {Str(<<"a", "@", "b", ".", "c">>), Str(<<"A", "@", "b", ".", "c">>),
   Str(<<"n", "@", "b", ".", "c">>)}
RacePasswords == {Str(Pw(8)), Str(Pw(7))}

RaceIdle ==
  /\ raceReq = [r \in Requests |-> [email |-> Absent, password |-> Absent]]
  /\ race = [r \in Requests |-> [RegisterStart EXCEPT !.pc = "unused"]]

\* ========================================================= specifications
\* One request to one handler; the other handlers stay as they are.
InitParse ==
  /\ impl \in ParserFiles
  /\ env = DefaultEnv
  /\ users = ChatUsers
  /\ content \in SeqsUpTo(TextTokens, MaxTextLen)
  /\ parsed = NotCalled
  /\ chatAnswer = NoAnswer
  /\ ChatIdle /\ CommitIdle /\ HookIdle /\ AuthIdle /\ LoginIdle /\ RefreshIdle /\ RegisterIdle /\ BackendIdle /\ AppleIdle /\ ForgotIdle /\ ResetIdle /\ RaceIdle

SpecParse == InitParse /\ [][NextParse]_vars

InitChat ==
  /\ impl \in ChatFiles
  /\ \E rq \in ChatRequests(impl) : body = rq[1] /\ env = rq[2]
  /\ users = ChatUsers
  /\ pc = "idle"
  /\ iterations = 0
  /\ allFileChanges = <<>>
  /\ apiMessages = <<>>
  /\ resolvedStorageToken = NoToken
  /\ turn = <<>>
  /\ inflight = {}
  /\ llmCalls = 0
  /\ res = NoRes
  /\ sse = <<>>
  /\ ParseIdle /\ CommitIdle /\ HookIdle /\ AuthIdle /\ LoginIdle /\ RefreshIdle /\ RegisterIdle /\ BackendIdle /\ AppleIdle /\ ForgotIdle /\ ResetIdle /\ RaceIdle

SpecChat == InitChat /\ [][NextChat]_vars

InitCommit ==
  /\ impl = "index.js"
  /\ env = DefaultEnv
  /\ users = ChatUsers
  /\ commitReq \in CommitRequests
  /\ commit = CommitStart
  /\ github = InitGithub
  /\ ParseIdle /\ ChatIdle /\ HookIdle /\ AuthIdle /\ LoginIdle /\ RefreshIdle /\ RegisterIdle /\ BackendIdle /\ AppleIdle /\ ForgotIdle /\ ResetIdle /\ RaceIdle

SpecCommit == InitCommit /\ [][NextCommit]_vars

InitWebhook ==
  /\ impl = "webhook/route.ts"
  /\ env = DefaultEnv
  /\ users = ChatUsers
  /\ event \in Events
  /\ hook = HookStart
  /\ subs \in SubscriptionTables
  /\ ParseIdle /\ ChatIdle /\ CommitIdle /\ AuthIdle /\ LoginIdle /\ RefreshIdle /\ RegisterIdle /\ BackendIdle /\ AppleIdle /\ ForgotIdle /\ ResetIdle /\ RaceIdle

SpecWebhook == InitWebhook /\ [][NextWebhook]_vars

InitAuth ==
  /\ impl \in AuthFiles
  /\ env \in {Env("sk-server", j) : j \in {Undefined, "secret"}}
  /\ users = ChatUsers
  /\ authReq \in Headers
  /\ auth = AuthStart
  /\ ParseIdle /\ ChatIdle /\ CommitIdle /\ HookIdle /\ LoginIdle /\ RefreshIdle /\ RegisterIdle /\ BackendIdle /\ AppleIdle /\ ForgotIdle /\ ResetIdle /\ RaceIdle

SpecAuth == InitAuth /\ [][NextAuth]_vars

InitLogin ==
  /\ impl \in LoginFiles
  /\ env \in {[Env("sk-server", j) EXCEPT !.JWT_REFRESH_SECRET = r] :
                j \in {Undefined, "secret"}, r \in {Undefined, "refresh-secret"}}
  /\ users = ChatUsers
  /\ loginReq \in [email : LoginEmails, password : LoginPasswords]
  /\ login = LoginStart
  /\ accounts = Accounts
  /\ ParseIdle /\ ChatIdle /\ CommitIdle /\ HookIdle /\ AuthIdle /\ RefreshIdle /\ RegisterIdle /\ BackendIdle /\ AppleIdle /\ ForgotIdle /\ ResetIdle /\ RaceIdle

SpecLogin == InitLogin /\ [][NextLogin]_vars

InitRefresh ==
  /\ impl \in RefreshFiles
  /\ env \in {[Env("sk-server", j) EXCEPT !.JWT_REFRESH_SECRET = r] :
                j \in {Undefined, "secret"}, r \in {Undefined, "refresh-secret"}}
  /\ users = ChatUsers
  /\ refreshReq \in [refreshToken : RefreshTokens]
  /\ refresh = RefreshStart
  /\ members \in MemberTables
  /\ ParseIdle /\ ChatIdle /\ CommitIdle /\ HookIdle /\ AuthIdle /\ LoginIdle /\ RegisterIdle /\ BackendIdle /\ AppleIdle /\ ForgotIdle /\ ResetIdle /\ RaceIdle

SpecRefresh == InitRefresh /\ [][NextRefresh]_vars

InitRegister ==
  /\ impl \in RegisterFiles
  /\ env \in {[Env("sk-server", j) EXCEPT !.JWT_REFRESH_SECRET = r] :
                j \in {Undefined, "secret"}, r \in {Undefined, "refresh-secret"}}
  /\ users = ChatUsers
  /\ registerReq \in [email : RegisterEmails, password : RegisterPasswords]
  /\ register = RegisterStart
  /\ registry \in Registries
  /\ ParseIdle /\ ChatIdle /\ CommitIdle /\ HookIdle /\ AuthIdle /\ LoginIdle /\ RefreshIdle /\ BackendIdle /\ AppleIdle /\ ForgotIdle /\ ResetIdle /\ RaceIdle

SpecRegister == InitRegister /\ [][NextRegister]_vars

InitBackend ==
  /\ impl = "index.js"
  /\ env = DefaultEnv
  /\ users = ChatUsers
  /\ backendReq \in [secret : SecretHeaders, body : BackendBodies]
  /\ internalSecret \in InternalSecrets
  /\ backend = BackendStart
  /\ subscriptions \in SubscriptionTables
  /\ ParseIdle /\ ChatIdle /\ CommitIdle /\ HookIdle /\ AuthIdle /\ LoginIdle /\ RefreshIdle /\ RegisterIdle /\ AppleIdle /\ ForgotIdle /\ ResetIdle /\ RaceIdle

SpecBackend == InitBackend /\ [][NextBackend]_vars

InitApple ==
  /\ impl = "index.js"
  /\ env \in {Env("sk-server", j) : j \in {Undefined, "secret"}}
  /\ users = ChatUsers
  /\ appleReq \in AppleRequests
  /\ apple = AppleStart
  /\ appleUsers = AppleUsers
  /\ ParseIdle /\ ChatIdle /\ CommitIdle /\ HookIdle /\ AuthIdle /\ LoginIdle /\ RefreshIdle /\ RegisterIdle /\ BackendIdle /\ ForgotIdle /\ ResetIdle /\ RaceIdle

SpecApple == InitApple /\ [][NextApple]_vars

InitForgot ==
  /\ impl = "index.js"
  /\ env \in {Env("sk-server", j) : j \in {Undefined, "secret"}}
  /\ users = ChatUsers
  /\ forgotReq \in [email : ForgotEmails]
  /\ forgot = [w \in Worlds |-> ForgotStart]
  /\ worlds = WorldsFor(forgotReq)
  /\ ParseIdle /\ ChatIdle /\ CommitIdle /\ HookIdle /\ AuthIdle /\ LoginIdle /\ RefreshIdle /\ RegisterIdle /\ BackendIdle /\ AppleIdle /\ ResetIdle /\ RaceIdle

SpecForgot == InitForgot /\ [][NextForgot]_vars

(* The streaming requests to chat.ts, under the assumption that whatever   *)
(* can happen next eventually does: the LLM call returns or fails, each    *)
(* fetch returns, the handler runs on.                                     *)
InitStream ==
  /\ InitChat
  /\ Stream(impl, body)

SpecStreamFair == InitStream /\ [][NextChat]_vars /\ WF_vars(NextChat)

(* One client holds one token that the server issued and sends it to each  *)
(* of the three endpoints.  The two secrets are configured differently or  *)
(* left to their defaults, which differ.                                   *)
InitKinds ==
  /\ impl \in KindFiles
  /\ env \in {[Env("sk-server", j) EXCEPT !.JWT_REFRESH_SECRET = r] :
                j \in {Undefined, "secret"}, r \in {Undefined, "refresh-secret"}}
  /\ users = ChatUsers
  /\ members \in MemberTables
  /\ \E u \in UserIds, age \in TokenAges :
       issued \in IssuedTokens(impl, env, u, "free", age)
  /\ authReq = Header(<<Word("Bearer"), issued.tok>>)
  /\ auth = AuthStart
  /\ refreshReq = [refreshToken |-> issued.tok]
  /\ refresh = RefreshStart
  /\ resetReq \in [token : {issued.tok}, newPassword : NewPasswords]
  /\ reset = IF impl = "index.js" THEN ResetStart ELSE [ResetStart EXCEPT !.pc = "unused"]
  /\ passwords = [u \in UserIds |-> Hash(Pw(8))]
  /\ ParseIdle /\ ChatIdle /\ CommitIdle /\ HookIdle /\ LoginIdle /\ RegisterIdle /\ BackendIdle /\ AppleIdle /\ ForgotIdle /\ RaceIdle

SpecKinds == InitKinds /\ [][NextKinds]_vars

InitRace ==
  /\ impl \in RegisterFiles
  /\ env \in {[Env("sk-server", j) EXCEPT !.JWT_REFRESH_SECRET = r] :
                j \in {Undefined, "secret"}, r \in {"refresh-secret"}}
  /\ users = ChatUsers
  /\ raceReq \in [Requests -> [email : RaceEmails, password : RacePasswords]]
  /\ race = [r \in Requests |-> RegisterStart]
  /\ registerReq = [email |-> Absent, password |-> Absent]
  /\ register = [RegisterStart EXCEPT !.pc = "unused"]
  /\ registry \in Registries
  /\ ParseIdle /\ ChatIdle /\ CommitIdle /\ HookIdle /\ AuthIdle /\ LoginIdle /\ RefreshIdle /\ BackendIdle /\ AppleIdle /\ ForgotIdle /\ ResetIdle

SpecRace == InitRace /\ [][NextRace]_vars

\* =============================================================== properties
GroupIsJson(toks) == ~JSONparse(Lexemes(MatchGroup(toks))).threw
GroupJson(toks) == JSONparse(Lexemes(MatchGroup(toks))).v
\* The three cases of the claim: no delimiter pair, no JSON, no `changes`.
NothingToParse(toks) ==
  \/ ~HasMatch(toks)
  \/ ~GroupIsJson(toks)
  \/ GroupJson(toks).k # "wrapper"
\* The bracketed part of the group parses on its own.
BracketedPartParses(toks) ==
  /\ HasArrayMatch(Lexemes(MatchGroup(toks)))
  /\ ~JSONparse(ArrayMatch(Lexemes(MatchGroup(toks)))).threw

IsLlm(rq) == rq.kind = "llm"
LlmInFlight == {rq \in inflight : IsLlm(rq)}
CapOf(file) == IF file = "index.js" THEN MAX_ITERATIONS ELSE MAX_TOOL_ITERATIONS

C1_State ==
  /\ llmCalls <= CapOf(impl)
  /\ iterations = llmCalls
  /\ Cardinality(LlmInFlight) <= 1
  /\ pc = "done" => inflight = {}
  /\ (pc = "done" /\ res.status = 200) =>
       res.iterations \in 1..CapOf(impl) /\ res.iterations = llmCalls

C1_Step ==
  (pc = "tools" /\ pc' # "tools" /\ llmCalls = CapOf(impl)) =>
    (pc' = "done" /\ res'.status = 200 /\ res'.iterations = CapOf(impl) /\ llmCalls' = llmCalls)

(* C1: a request that passed validation makes at most 10 (chat.ts) or 5    *)
(* (index.js) LLM calls whatever the model replies; an answer of the loop  *)
(* carries an `iterations` between 1 and the cap, equal to the number of   *)
(* LLM calls made; and when the tools of the turn that reached the cap     *)
(* have returned, the handler leaves the loop and answers.                 *)
C1_BoundedLoop == []C1_State /\ [][C1_Step]_vars

\* C1, witness: the model asked for tools on every turn and chat.ts answered at the cap.
C1_Witness ==
  /\ impl = "chat.ts"
  /\ pc = "done"
  /\ res.status = 200
  /\ res.iterations = MAX_TOOL_ITERATIONS
  /\ llmCalls = MAX_TOOL_ITERATIONS
  /\ Len(apiMessages) = 1 + MAX_TOOL_ITERATIONS

\* The calls of the turn run one after another: the ones before the running one are done.
OneAfterAnother ==
  \A i \in 1..Len(turn) :
    /\ turn[i].st = "fetch" => \A j \in 1..(i - 1) : turn[j].st = "done"
    /\ turn[i].st = "done" => \A j \in 1..(i - 1) : turn[j].st = "done"

(* C2 as stated: at most one outbound HTTP call is in flight at any        *)
(* moment, and the tool calls of a turn run one after another.             *)
C2_AsStated == Cardinality(inflight) <= 1 /\ OneAfterAnother

(* C2, amended: an LLM call is never in flight together with another call; *)
(* index.js has at most one call in flight and runs the tool calls of a    *)
(* turn one after another; chat.ts starts the tool calls of a turn         *)
(* together, so that as many fetches as the turn has calls may be in       *)
(* flight, one for each call.                                              *)
C2_OneCallAtATime ==
  /\ LlmInFlight # {} => Cardinality(inflight) = 1 /\ pc = "llm"
  /\ impl = "index.js" => Cardinality(inflight) <= 1 /\ OneAfterAnother
  /\ impl = "chat.ts" =>
       /\ Cardinality(inflight \ LlmInFlight) <= Len(turn)
       /\ \A rq \in inflight \ LlmInFlight :
            \E i \in 1..Len(turn) : turn[i].id = rq.call /\ turn[i].st = "fetch"

\* C2, witness: index.js fetches for the second call of a turn after the first has returned.
C2_Witness ==
  /\ impl = "index.js"
  /\ Len(turn) = 2
  /\ turn[1].st = "done" /\ turn[1].result.result = "File"
  /\ turn[2].st = "fetch"
  /\ Cardinality(inflight) = 1

\* Executing the call has thrown: its input could not be used, or its fetch failed.
Threw(file, el) ==
  \/ el.name = "read_file" /\ (el.arg = 0 \/ el.failed)
  \/ el.name = "search_files" /\ (el.arg = 0 \/ el.failed)
  \/ el.name = "read_multiple_files" /\ el.arg = 0 /\ file = "chat.ts"

C3_State ==
  /\ pc = "tools" => ~res.ended
  /\ \A i \in 1..Len(turn) :
       (turn[i].st = "done" /\ Threw(impl, turn[i])) =>
          /\ turn[i].result.result = "ErrorExecuting"
          /\ turn[i].result.toolCallId = turn[i].id
          /\ turn[i].result.isError = (impl = "chat.ts")

\* The last message of the LLM request in flight answers every call of the turn t.
AnswersAll(rqs, t) ==
  \A rq \in rqs :
    LET m == rq.messages[Len(rq.messages)]
    IN  /\ m.role = "user"
        /\ Len(m.content) = Len(t)
        /\ \A i \in 1..Len(t) : m.content[i] = [type |-> "tool_result", id |-> t[i].id]

C3_Step ==
  (pc = "tools" /\ pc' # "tools") =>
    /\ \A i \in 1..Len(turn) : turn[i].st = "done" /\ turn[i].result.toolCallId = turn[i].id
    /\ \/ /\ pc' = "llm"
          /\ llmCalls' = llmCalls + 1
          /\ inflight' # {}
          /\ AnswersAll(inflight', turn)
       \/ /\ llmCalls = CapOf(impl)
          /\ pc' = "done"
          /\ res'.status = 200

(* C3: a tool call that throws gives the result `Error executing ...`,     *)
(* flagged isError in chat.ts; the request is not answered while the tools *)
(* of a turn run; when they are over every call of the turn has its        *)
(* result, and the handler makes the next LLM call with a result for each  *)
(* call, or has reached the cap and answers 200.                           *)
C3_ToolErrorsAreResults == []C3_State /\ [][C3_Step]_vars

\* C3, witness: the fetch of one call failed, the other call of the turn returned its file.
C3_Witness ==
  /\ pc = "tools"
  /\ Len(turn) = 2
  /\ turn[1].failed /\ turn[1].result.result = "ErrorExecuting"
  /\ turn[2].result.result = "File"

\* What a call names other than the tools in `known` never reaches storage.
OnlyKnownTools(known) ==
  /\ \A rq \in LlmInFlight : rq.tools \subseteq known
  /\ \A i \in 1..Len(turn) :
       IF turn[i].name \in known
       THEN turn[i].st = "done" => turn[i].result.result # "UnknownTool"
       ELSE /\ turn[i].st # "fetch"
            /\ ~turn[i].failed
            /\ turn[i].st = "done" => turn[i].result.result = "UnknownTool"

(* C4 as stated: the loop offers and executes at most the two tools        *)
(* read_file and search_files, any other name gives `Unknown tool`.        *)
C4_AsStated == OnlyKnownTools({"read_file", "search_files"})

(* C4, amended: index.js offers and executes read_file and search_files;   *)
(* chat.ts offers and executes read_multiple_files as well.  A call with   *)
(* any other name makes no fetch and gives `Unknown tool`.                 *)
C4_KnownTools ==
  OnlyKnownTools(IF impl = "index.js" THEN {"read_file", "search_files"}
                 ELSE {"read_file", "read_multiple_files", "search_files"})

\* C4, witness: a turn asked for a tool that does not exist and for a file.
C4_Witness ==
  /\ Len(turn) = 2
  /\ turn[1].name = "delete_file" /\ turn[1].result.result = "UnknownTool"
  /\ turn[2].name = "read_file" /\ turn[2].st = "fetch"
  /\ Cardinality(inflight) = 1

(* C8: every LLM call of a request that carries an apiKey is made with     *)
(* that key, and the server's key is used only by requests without one.    *)
C8_ByokKeyUsed ==
  \A rq \in LlmInFlight :
    IF Truthy(body.apiKey)
    THEN rq.key = body.apiKey
    ELSE rq.key = env.ANTHROPIC_API_KEY

\* C8, witness: a later LLM call of a request with its own key, on a server that has a key.
C8_Witness ==
  /\ body.apiKey = "sk-user"
  /\ env.ANTHROPIC_API_KEY = "sk-server"
  /\ llmCalls >= 2
  /\ \E rq \in LlmInFlight : rq.key = "sk-user"


\* The calls of a commit request in the order they are to be made, for its files.
CallOrder(files) ==
  LET kept == SelectSeq([i \in 1..Len(files) |-> i], LAMBDA i : files[i].action # "delete")
  IN  <<[op |-> "GET ref", file |-> 0], [op |-> "GET commit", file |-> 0]>>
      \o [k \in 1..Len(kept) |-> [op |-> "POST blob", file |-> kept[k]]]
      \o <<[op |-> "POST tree", file |-> 0], [op |-> "POST commit", file |-> 0],
           [op |-> "PATCH ref", file |-> 0]>>
IsPrefix(s, t) == Len(s) <= Len(t) /\ \A i \in 1..Len(s) : s[i] = t[i]
\* The calls the handler has issued so far.
Issued == [i \in 1..Len(commit.log) |-> [op |-> commit.log[i].op, file |-> commit.log[i].file]]
\* The head GitHub gave in answer to the first call.
HeadRead == commit.answers[1].sha

(* C5: the Git Data calls go out in the order read ref, read commit, one   *)
(* blob for each file that is no deletion in the order of the input,       *)
(* create tree, create commit, update ref, each after the answer to the    *)
(* one before it; the commit read is the head the first call gave, the     *)
(* new tree is based on that commit's tree and holds one item for each     *)
(* blob, and the new commit has that head as its only parent.              *)
C5_CallsInOrder ==
  /\ IsPrefix(Issued, CallOrder(commitReq.files))
  /\ Len(commit.answers) = Len(commit.log) - (IF commit.pc = "wait" THEN 1 ELSE 0)
  /\ commit.pc = "wait" <=> commit.call # NoCall
  /\ \A i \in 1..Len(commit.log) :
       LET c == commit.log[i]
       IN  /\ c.op = "GET commit" => c.sha = HeadRead
           /\ c.op = "POST tree" =>
                /\ c.base_tree = github.commits[HeadRead].tree
                /\ Len(c.tree) = i - 3
                /\ \A k \in 1..Len(c.tree) :
                     /\ c.tree[k].sha = commit.answers[2 + k].sha
                     /\ c.tree[k].path = StripSlash(commitReq.files[commit.log[2 + k].file].path)
           /\ c.op = "POST commit" => c.parents = <<HeadRead>> /\ c.sha = commit.answers[i - 1].sha
           /\ c.op = "PATCH ref" => c.sha = commit.answers[i - 1].sha
  /\ commit.res.status = 200 =>
       /\ Issued = CallOrder(commitReq.files)
       /\ github.head = commit.res.sha
       /\ github.commits[github.head].parents = <<HeadRead>>

(* C5, witness: a commit of two files went through, on a head that someone *)
(* else had pushed before the request read the branch.                     *)
C5_Witness ==
  /\ commit.pc = "done"
  /\ commit.res.status = 200
  /\ Len(commit.log) = 7
  /\ github.pushes = 1
  /\ commit.log[6].parents = <<2>>

\* The event is of a type the webhook handles and has the metadata its case asks for.
HandledWithUser(ev) ==
  /\ ev.type \in {"checkout.session.completed", "customer.subscription.updated",
                  "customer.subscription.deleted", "invoice.payment_failed"}
  /\ Truthy(ev.userId)
  /\ ev.type = "checkout.session.completed" => Truthy(ev.tier)

\* The relay the claim gives for an event, for the user uid.
RelayFor(ev, uid) ==
  CASE ev.type = "checkout.session.completed" ->
         Relay(uid, ev.tier, ev.customer, ev.subscription, "active", Undefined)
    [] ev.type = "customer.subscription.updated" ->
         Relay(uid, ev.tier, Undefined, ev.id,
               IF ev.status \in {"active", "past_due"} THEN ev.status ELSE "cancelled",
               ev.cancelAtPeriodEnd)
    [] ev.type = "customer.subscription.deleted" ->
         Relay(uid, "free", Undefined, Null, "active", Undefined)
    [] OTHER -> Relay(uid, Undefined, Undefined, Undefined, "past_due", Undefined)

(* C7 as stated: an event whose signature fails is answered 400 and        *)
(* relays nothing; a handled event with a userId in its metadata relays    *)
(* exactly one upsert, of the shape given for its type; any other event    *)
(* relays nothing.                                                         *)
C7_AsStated ==
  hook.pc = "done" =>
    IF ~event.signed THEN hook.res.status = 400 /\ hook.relays = <<>>
    ELSE IF HandledWithUser(event) THEN hook.relays = <<RelayFor(event, event.userId)>>
    ELSE hook.relays = <<>>

(* C7, amended: as stated for the checkout and the two subscription        *)
(* events.  For invoice.payment_failed the metadata of the invoice is not  *)
(* read: when the invoice names a subscription the route retrieves it from *)
(* Stripe and relays past_due for the userId in that subscription's        *)
(* metadata, if it has one; when the retrieval fails the answer is 500 and *)
(* nothing is relayed.  The backend writes a relay that comes with its     *)
(* secret into the subscription of that user.                              *)
C7_RelaysOne ==
  /\ Len(hook.relays) <= 1
  /\ hook.retrieved <= 1
  /\ hook.pc = "done" =>
       IF ~event.signed THEN hook.res.status = 400 /\ hook.relays = <<>>
       ELSE IF event.type = "invoice.payment_failed"
       THEN IF ~Truthy(event.subscription) THEN hook.relays = <<>> /\ hook.retrieved = 0
            ELSE /\ hook.retrieved = 1
                 /\ \/ hook.relays = <<>> /\ hook.res.status = 500
                    \/ hook.relays = <<>> /\ ~Truthy(event.subscriptionUserId)
                    \/ /\ Truthy(event.subscriptionUserId)
                       /\ hook.relays = <<RelayFor(event, event.subscriptionUserId)>>
       ELSE /\ hook.retrieved = 0
            /\ IF HandledWithUser(event) THEN hook.relays = <<RelayFor(event, event.userId)>>
               ELSE hook.relays = <<>> /\ hook.res.status = 200
  /\ hook.backend = <<200>> =>
       LET b == hook.relays[1]
       IN  /\ subs[b.userId].exists
           /\ subs[b.userId].status = b.status
           /\ event.type = "customer.subscription.deleted" =>
                subs[b.userId].tier = "free" /\ subs[b.userId].stripeSubscriptionId = Null
           /\ event.type = "invoice.payment_failed" => subs[b.userId].tier \in {"pro", "free"}
  /\ \A u \in UserIds : (hook.relays = <<>> \/ hook.backend # <<200>>) => subs[u].status # "past_due"

(* C7, witness: a failed invoice without a userId of its own was relayed   *)
(* as past_due for the user of its subscription, and the backend wrote it. *)
C7_Witness ==
  /\ hook.pc = "done"
  /\ event.type = "invoice.payment_failed"
  /\ ~Truthy(event.userId)
  /\ hook.relays = <<Relay("u2", Undefined, Undefined, Undefined, "past_due", Undefined)>>
  /\ hook.backend = <<200>>
  /\ subs["u2"].status = "past_due"

\* The header is `Bearer <token>` with a JWT for a token.
BearerJwt == authReq.present /\ Len(authReq.parts) = 2 /\ authReq.parts[1] = Word("Bearer")
               /\ authReq.parts[2].t = "jwt"
\* The token of the header verifies under the configured JWT_SECRET, within its 15 minutes.
VerifiesInTime ==
  /\ BearerJwt
  /\ Truthy(env.JWT_SECRET)
  /\ authReq.parts[2].signedWith = env.JWT_SECRET
  /\ authReq.parts[2].age < 15

GuardAsStated ==
  auth.pc # "idle" =>
    /\ auth.nextCalls <= 1
    /\ auth.handled <= auth.nextCalls
    /\ auth.nextCalls = 1 => VerifiesInTime /\ auth.user = authReq.parts[2].userId
    /\ auth.nextCalls = 0 =>
         /\ auth.res.status \in {401, 403, 500}
         /\ auth.res.status = 500 => ~Truthy(env.JWT_SECRET)
         /\ ~authReq.present => auth.res.status = 401
         /\ (BearerJwt /\ ~Truthy(env.JWT_SECRET)) => auth.res.status = 500
         /\ (BearerJwt /\ Truthy(env.JWT_SECRET) /\ authReq.parts[2].signedWith = env.JWT_SECRET
               /\ authReq.parts[2].age >= 15) => auth.res.status = 401

(* C9 as stated: the handler runs only for `Bearer <token>` with a token   *)
(* that verifies under JWT_SECRET within its 15 minutes; otherwise it does *)
(* not run and the answer is 401 (no token, expired), 403 (invalid) or 500 *)
(* (no JWT_SECRET); next() is called at most once, with req.user set.      *)
C9_AsStated == GuardAsStated

\* C9: authenticateToken of src/src/middleware/auth.ts guards as stated.
C9_MiddlewareGuards == impl = "middleware/auth.ts" => GuardAsStated

(* C9, witness: without JWT_SECRET, index.js ran the handler for a token   *)
(* signed with the secret it falls back to.                                *)
C9_Witness ==
  /\ impl = "index.js"
  /\ ~Truthy(env.JWT_SECRET)
  /\ BearerJwt
  /\ authReq.parts[2].signedWith = "dev-secret"
  /\ auth.handled = 1

\* The body has email and password as strings or not at all.
StringsOnly == loginReq.email.k # "number" /\ loginReq.password.k # "number"
\* The user the request names, if there is one.
NamedUser == findUnique(accounts, toLowerCase(loginReq.email.v))
TokensIssued == login.res.accessToken # NoToken \/ login.res.refreshToken # NoToken
MayLogIn ==
  /\ ~Falsy(loginReq.email) /\ ~Falsy(loginReq.password)
  /\ NamedUser.exists
  /\ NamedUser.passwordHash.k = "hash"
  /\ NamedUser.passwordHash.of = loginReq.password.v

LoginAsStated ==
  (login.pc = "done" /\ StringsOnly /\ ~login.dbThrew) =>
    /\ TokensIssued =>
         /\ MayLogIn
         /\ login.res.status = 200
         /\ login.res.accessToken # NoToken /\ login.res.refreshToken # NoToken
    /\ ~MayLogIn =>
         /\ ~TokensIssued
         /\ login.res.status \in {400, 401}
         /\ (Falsy(loginReq.email) \/ Falsy(loginReq.password)) => login.res.status = 400
         /\ (~Falsy(loginReq.email) /\ ~Falsy(loginReq.password) /\ NamedUser.exists
               /\ NamedUser.passwordHash.k = "null") =>
              login.res.status = 401 /\ login.res.error = "Please sign in with Google"

(* C10 as stated: login issues tokens only to an existing user with a      *)
(* password hash that the password matches; every other request gets no    *)
(* tokens and 400 (a member missing) or 401, and an account without a      *)
(* password hash gets 401 `Please sign in with Google`.                    *)
C10_AsStated == LoginAsStated

\* C10: the login of src/src/server.ts and of src/api/index.js does as stated.
C10_LoginWithHashCheck == impl # "routes/auth.ts" => LoginAsStated

(* C10, witness: src/src/routes/auth.ts answered 500 to the login of an    *)
(* account that has no password hash.                                      *)
C10_Witness ==
  /\ impl = "routes/auth.ts"
  /\ login.pc = "done"
  /\ ~login.dbThrew
  /\ login.user.exists /\ login.user.passwordHash.k = "null"
  /\ login.res.status = 500

\* --- claim C11
\* The refresh token verifies under the refresh secret the server signs with.
ValidRefreshToken ==
  /\ Truthy(TokenSecrets(impl, env).refresh)
  /\ jwtVerify(refreshReq.refreshToken, TokenSecrets(impl, env).refresh).err = "none"
NoTokensIssued(r) == r.accessToken = NoToken /\ r.refreshToken = NoToken
\* The two tokens of the answer are signed for the user with the tier now stored for it.
FreshTokensFor(r, userId, tier) ==
  /\ r.accessToken = TieredToken(TokenSecrets(impl, env).access, userId, tier, AccessMinutes, 0)
  /\ r.refreshToken = TieredToken(TokenSecrets(impl, env).refresh, userId, tier, RefreshMinutes, 0)

(* C11: POST /auth/refresh answers 400 to a missing token; 401, with no    *)
(* tokens, to a token that is invalid or expired or whose user is gone;    *)
(* and to a valid token of an existing user (the access secret configured, *)
(* the lookup answered) a new access and a new refresh token that carry    *)
(* the tier stored for the user when it was read, 'free' without a         *)
(* subscription, whatever tier the presented token carries.                *)
C11_RefreshTakesStoredTier ==
  refresh.pc = "done" =>
    LET tok == refreshReq.refreshToken
        r == refresh.res
        user == findById(members, tok.userId)
    IN  /\ r.status # 200 => NoTokensIssued(r)
        /\ NoTokenGiven(tok) => r.status = 400
        /\ ~NoTokenGiven(tok) /\ ~ValidRefreshToken => r.status = 401
        /\ ValidRefreshToken /\ ~user.exists => r.status = 401
        /\ ValidRefreshToken /\ user.exists /\ ~refresh.dbThrew
             /\ Truthy(TokenSecrets(impl, env).access) =>
             /\ r.status = 200
             /\ FreshTokensFor(r, tok.userId, IF user.tier = NoSubscriptionTier THEN "free"
                                              ELSE user.tier)

\* A refresh that was answered with new tokens after the user's tier had changed under it.
C11_Witness ==
  /\ refresh.pc = "done"
  /\ refresh.res.status = 200
  /\ refresh.changed
  /\ refresh.res.accessToken.tier # refreshReq.refreshToken.tier
  /\ refresh.res.refreshToken.tier = "free"
  /\ members[refreshReq.refreshToken.userId].tier = NoSubscriptionTier

\* --- claim C12
\* The rows this request created.
CreatedByRequest == {i \in 1..Len(registry) : registry[i].mine}
NothingRegistered ==
  /\ CreatedByRequest = {}
  /\ NoTokensIssued(register.res)
\* The request created one user, with the lower-case address and a free, active subscription.
OneUserRegistered ==
  /\ Cardinality(CreatedByRequest) = 1
  /\ \A i \in CreatedByRequest :
       /\ registry[i].email = toLowerCase(registerReq.email.v)
       /\ registry[i].tier = "free" /\ registry[i].status = "active"
       /\ registry[i].passwordHash = Hash(registerReq.password.v)
LacksMember == Falsy(registerReq.email) \/ Falsy(registerReq.password)
BadEmailFormat == registerReq.email.k # "string" \/ ~emailRegexTest(registerReq.email.v)
ShortPassword == registerReq.password.k = "string" /\ Len(registerReq.password.v) < 8
\* Someone else holds the address, compared in lower case.
TakenByOther ==
  \E i \in 1..Len(registry) :
    ~registry[i].mine /\ registry[i].email = toLowerCase(registerReq.email.v)
\* What the claim says of the requests that fail a check.
RejectedAsStated ==
  /\ LacksMember \/ BadEmailFormat \/ ShortPassword => register.res.status = 400
  /\ register.res.status \in {400, 409} => NothingRegistered
  /\ register.res.status = 409 => TakenByOther
  /\ register.res.status = 400 => LacksMember \/ BadEmailFormat \/ ShortPassword

CarriesConfiguredSecret ==
  /\ backendReq.secret # Undefined
  /\ internalSecret # Undefined
  /\ backendReq.secret = internalSecret
UnauthorizedLeavesTable ==
  ~CarriesConfiguredSecret =>
    /\ subscriptions' = subscriptions
    /\ backend'.pc = "done" => backend'.res.status = 401

(* C13 as stated: under every configuration, a request whose               *)
(* x-webhook-secret header is not the configured INTERNAL_WEBHOOK_SECRET,  *)
(* one without the header among them, is answered 401 and changes no       *)
(* subscription.                                                           *)
C13_AsStated == [][UnauthorizedLeavesTable]_vars

(* C13 where a secret is configured: with INTERNAL_WEBHOOK_SECRET set to a *)
(* non-empty string, a request without that secret in its header is        *)
(* answered 401 and changes no subscription.                               *)
C13_GuardedWhenConfigured == [][Truthy(internalSecret) => UnauthorizedLeavesTable]_vars

\* With no secret configured, a request without the header has made u1 a pro subscriber.
C13_Witness ==
  /\ backend.pc = "done"
  /\ internalSecret = Undefined
  /\ backendReq.secret = Undefined
  /\ backend.res.status = 200
  /\ backendReq.body.userId = "u1" /\ backendReq.body.tier = "pro"
  /\ subscriptions["u1"].tier = "pro"

\* --- claim C14
SignedByApple ==
  /\ appleReq.identityToken.t = "jwt"
  /\ appleReq.identityToken.signedBy = "apple"
UnsignedChangesNothing ==
  ~SignedByApple =>
    /\ appleUsers' = appleUsers
    /\ apple'.res.accessToken = NoToken /\ apple'.res.refreshToken = NoToken
    /\ apple'.pc = "done" => apple'.res.status \in {400, 401}

(* C14 as stated: an identity token that Apple did not sign is rejected:   *)
(* no account is created, no Apple id is linked, no tokens are issued.     *)
C14_AsStated == [][UnsignedChangesNothing]_vars

(* C14, what the handler does ensure: tokens are issued only for an        *)
(* account that carries the Apple id named in the token's payload.         *)
C14_TokensForSubOfPayload ==
  apple.pc = "done" /\ apple.res.status = 200 =>
    /\ apple.user \in 1..Len(appleUsers)
    /\ appleUsers[apple.user].appleId = appleReq.identityToken.sub
    /\ apple.res.accessToken.userId = apple.user

(* A token signed by someone else, naming the address of a password        *)
(* account, got that account linked and tokens for it.                     *)
C14_Witness ==
  /\ apple.pc = "done"
  /\ apple.res.status = 200
  /\ appleReq.identityToken.t = "jwt"
  /\ appleReq.identityToken.signedBy = "someone"
  /\ apple.user = 1
  /\ appleUsers[1].appleId = "ap2"
  /\ apple.res.accessToken.userId = 1

\* --- claim C15
BothAnswered == \A w \in Worlds : forgot[w].pc = "done"
(* C15: the answer of POST /auth/forgot-password to an address that has an *)
(* account and its answer to the same address when it has none have the    *)
(* same status and the same body (the database answering alike in both),   *)
(* and the client's forgotPassword ends alike.                             *)
C15_SameAnswer ==
  BothAnswered /\ forgot["account"].dbThrew = forgot["none"].dbThrew =>
    /\ forgot["account"].res = forgot["none"].res
    /\ forgotPassword(forgot["account"].res) = forgotPassword(forgot["none"].res)

(* Both tables answered 200 with the same body; for the account a reset    *)
(* token was signed and logged, for the other nothing was.                 *)
C15_Witness ==
  /\ BothAnswered
  /\ forgot["account"].res.status = 200
  /\ forgot["none"].res = forgot["account"].res
  /\ forgot["account"].logged # NoToken
  /\ forgot["none"].logged = NoToken
  /\ forgotReq.email.v # toLowerCase(forgotReq.email.v)

\* --- claim C16
\* A tools-enabled request to chat.ts that names GitHub storage, on a server with its JWT secret.
GithubToolsRequest ==
  /\ impl = "chat.ts"
  /\ body.messages = "array"
  /\ EnableTools("chat.ts", body)
  /\ Present(body.storageToken)
  /\ StorageType("chat.ts", body) = "github"
  /\ Truthy(env.JWT_SECRET)
StorageJwt == jwtVerify(body.storageToken, env.JWT_SECRET)
HasGithubToken(u) == u \in DOMAIN users /\ users[u].exists /\ users[u].github
NothingCalled == llmCalls = 0 /\ inflight = {}

(* C16: for a tools-enabled request with storageType 'github' every file   *)
(* fetch carries the GitHub token stored for the userId of a storageToken  *)
(* that verified; an expired storageToken is answered 401, an invalid one  *)
(* 403, a user without a stored GitHub token 400 (403 when the lookup      *)
(* itself fails), and in these cases no LLM call and no fetch is made.     *)
C16_GithubTokenOfJwtUser ==
  GithubToolsRequest =>
    /\ \A rq \in inflight :
         rq.kind = "fetch" =>
           /\ StorageJwt.err = "none"
           /\ HasGithubToken(StorageJwt.userId)
           /\ rq.token = GitHubToken(StorageJwt.userId)
    /\ llmCalls > 0 => StorageJwt.err = "none" /\ HasGithubToken(StorageJwt.userId)
    /\ StorageJwt.err # "none" \/ ~HasGithubToken(StorageJwt.userId) => NothingCalled
    /\ pc = "done" =>
         /\ StorageJwt.err = "expired" => res.status = 401
         /\ StorageJwt.err = "invalid" => res.status = 403
         /\ StorageJwt.err = "none" /\ ~HasGithubToken(StorageJwt.userId) =>
              res.status \in {400, 403}
         /\ res.status = 400 => StorageJwt.err = "none" /\ ~HasGithubToken(StorageJwt.userId)

\* A file is being fetched from GitHub with the token of the user the JWT names.
C16_Witness ==
  /\ GithubToolsRequest
  /\ pc = "tools"
  /\ \E rq \in inflight :
       rq.kind = "fetch" /\ rq.dest = "github" /\ rq.token = GitHubToken("u1")
  /\ StorageJwt.userId = "u1"

\* --- claim C17
ToolResultIds(msg) == {msg.content[k].id : k \in {j \in 1..Len(msg.content) : msg.content[j].type = "tool_result"}}
ToolUseIds(msg) == {msg.content[k].id : k \in {j \in 1..Len(msg.content) : msg.content[j].type = "tool_use"}}
\* Every tool_result of the request answers a tool_use of the assistant message before it.
ResultsAnswerUses(msgs) ==
  \A i \in 1..Len(msgs) :
    ToolResultIds(msgs[i]) # {} =>
      /\ i > 1
      /\ msgs[i - 1].role = "assistant"
      /\ ToolResultIds(msgs[i]) \subseteq ToolUseIds(msgs[i - 1])

(* C17 as stated: in every LLM request the loop sends after executing      *)
(* tools, each tool_result block names a tool_use block of the assistant   *)
(* message immediately before the tool-result message.                     *)
C17_AsStated == \A rq \in LlmInFlight : ResultsAnswerUses(rq.messages)

(* C17 for index.js: its requests carry the assistant's content with the   *)
(* tool_use blocks, followed by one tool_result for each of them.          *)
C17_IndexJsPairsResults ==
  impl = "index.js" =>
    \A rq \in LlmInFlight :
      /\ ResultsAnswerUses(rq.messages)
      /\ \A i \in 2..Len(rq.messages) :
           ToolUseIds(rq.messages[i - 1]) # {} =>
             ToolResultIds(rq.messages[i]) = ToolUseIds(rq.messages[i - 1])

(* chat.ts has sent a request whose last message holds tool results and    *)
(* whose assistant message before it holds text only.                      *)
C17_Witness ==
  /\ impl = "chat.ts"
  /\ \E rq \in LlmInFlight :
       LET n == Len(rq.messages)
       IN  /\ n >= 3
           /\ ToolResultIds(rq.messages[n]) # {}
           /\ rq.messages[n - 1] = Message("assistant", <<TextBlock>>)

\* --- claim C18
IsToolResult(blk) == blk.type = "tool_result"
\* The ids of the tool results of a request, in the order the request holds them.
ResultIdsInOrder(msgs) ==
  Flatten([i \in 1..Len(msgs) |->
             LET rs == SelectSeq(msgs[i].content, IsToolResult)
             IN  [k \in 1..Len(rs) |-> rs[k].id]])
\* Tool call a was made before tool call b: an earlier iteration, or earlier in the same turn.
MadeBefore(a, b) == a[1] < b[1] \/ (a[1] = b[1] /\ a[2] < b[2])
(* The request holds a result for the first tool call of every earlier     *)
(* iteration (each of which ran at least one), and holds its results in    *)
(* the order the calls were made.                                          *)
KeepsEarlierResults(rq) ==
  LET ids == ResultIdsInOrder(rq.messages)
  IN  /\ \A j \in 1..(iterations - 1) : \E k \in 1..Len(ids) : ids[k] = <<j, 1>>
      /\ \A a, b \in 1..Len(ids) : a < b => MadeBefore(ids[a], ids[b])

(* C18 as stated: every LLM request of the loop still holds, in their      *)
(* order, the tool results of every earlier iteration.                     *)
C18_AsStated == \A rq \in LlmInFlight : KeepsEarlierResults(rq)

(* C18 for index.js: apiMessages only grows while the request is served,   *)
(* every LLM request is sent with it, and so holds the results of every    *)
(* earlier iteration in their order.                                       *)
C18_IndexJsOnlyGrows ==
  /\ [](impl = "index.js" =>
          \A rq \in LlmInFlight : KeepsEarlierResults(rq) /\ rq.messages = apiMessages)
  /\ [][impl = "index.js" /\ pc \notin {"idle", "unused"} => IsPrefix(apiMessages, apiMessages')]_vars

(* chat.ts is in its third iteration and its request holds the results of  *)
(* the second iteration only.                                              *)
C18_Witness ==
  /\ impl = "chat.ts"
  /\ iterations = 3
  /\ \E rq \in LlmInFlight :
       /\ ResultIdsInOrder(rq.messages) # <<>>
       /\ \A k \in 1..Len(ResultIdsInOrder(rq.messages)) : ResultIdsInOrder(rq.messages)[k][1] = 2

\* --- claim C19
(* C19 as stated: every streaming request eventually has its response      *)
(* ended, one whose LLM call fails after SSE data was written included.    *)
C19_AsStated == <>(res.ended)

(* C19, what does hold: the handler of every streaming request eventually  *)
(* returns, and when it has, the response is ended unless SSE data had     *)
(* been written and no `complete` event followed it.                       *)
C19_EndsUnlessFailedAfterWrite ==
  /\ <>(pc = "done")
  /\ [](pc = "done" /\ ~res.ended =>
          /\ res.headersSent
          /\ res.status = 0
          /\ \A i \in 1..Len(sse) : sse[i] # "complete")

(* The handler has returned from its catch after a chunk was written: the  *)
(* headers are sent, no answer was written, the response is not ended.     *)
C19_Witness ==
  /\ impl = "chat.ts"
  /\ Stream(impl, body)
  /\ pc = "done"
  /\ res.headersSent
  /\ ~res.ended
  /\ res.status = 0
  /\ "chunk" \in {sse[i] : i \in 1..Len(sse)}

\* --- claim C20
\* The place of an event within its iteration.
EventRank(ev) ==
  CASE ev = "chunk" -> 1 [] ev = "tool_calls" -> 2 [] ev = "tool_results" -> 3 [] OTHER -> 4
Written(log, ev) == \E i \in 1..Len(log) : log[i] = ev
(* The events of one iteration: chunks, then at most one tool_calls, then  *)
(* a tool_results only after a tool_calls, then at most one complete.      *)
InIterationOrder(log) ==
  /\ \A i, j \in 1..Len(log) : i < j => EventRank(log[i]) <= EventRank(log[j])
  /\ \A i, j \in 1..Len(log) : i # j /\ log[i] = log[j] => log[i] = "chunk"
  /\ Written(log, "tool_results") => Written(log, "tool_calls")
NothingAfterComplete == Written(sse, "complete") => sse' = sse /\ res' = res /\ pc' = pc

(* C20: on a streaming request the events of an iteration are written as   *)
(* chunks, then at most one tool_calls, then tool_results only after a     *)
(* tool_calls; a request that ends without error has written exactly one   *)
(* complete event, last, with fileChanges and iterations, and ended the    *)
(* response; nothing is written after the complete event.                  *)
C20_SseOrder ==
  /\ [](~Stream(impl, body) => sse = <<>>)
  /\ [](Stream(impl, body) =>
          /\ InIterationOrder(sse)
          /\ Written(sse, "complete") <=> pc = "done" /\ res.ended /\ res.status = 200
          /\ Written(sse, "complete") =>
               /\ sse[Len(sse)] = "complete"
               /\ res.iterations = iterations /\ res.fileChanges = allFileChanges)
  /\ [][NothingAfterComplete]_vars

\* A streaming request has ended after a tool round: the last iteration wrote a chunk and complete.
C20_Witness ==
  /\ Stream(impl, body)
  /\ pc = "done"
  /\ res.ended
  /\ iterations = 2
  /\ sse = <<"chunk", "complete">>

\* --- claim C21
\* authenticateToken called next() for the token.
BearerAccepted == auth.nextCalls > 0
\* /auth/refresh verified the token and went on to look the user up.
RefreshAccepted == refresh.decoded # Undefined
\* /auth/reset-password verified the token and went on to look the user up.
ResetAccepted == reset.decoded # Undefined

(* C21 as stated: a token that the server issued is accepted only by the   *)
(* endpoint of its kind: authenticateToken accepts only access tokens,     *)
(* /auth/refresh only refresh tokens, /auth/reset-password only reset      *)
(* tokens.                                                                 *)
C21_AsStated ==
  /\ BearerAccepted => issued.kind = "access"
  /\ RefreshAccepted => issued.kind = "refresh"
  /\ ResetAccepted => issued.kind = "reset"

(* C21, what holds: /auth/refresh accepts only refresh tokens and          *)
(* /auth/reset-password only reset tokens that have not expired;           *)
(* authenticateToken accepts access tokens and, in index.js, every reset   *)
(* token that has not expired, as the user the reset was asked for.        *)
C21_ResetTokenIsBearerToken ==
  /\ BearerAccepted => \/ issued.kind = "access"
                       \/ impl = "index.js" /\ issued.kind = "reset"
  /\ BearerAccepted => ~issued.tok.expired /\ auth.user = issued.tok.userId
  /\ RefreshAccepted => issued.kind = "refresh"
  /\ ResetAccepted => issued.kind = "reset" /\ ~issued.tok.expired
  /\ impl = "index.js" /\ issued.kind = "reset" /\ ~issued.tok.expired /\ auth.pc # "idle"
       => BearerAccepted

(* A reset token, half an hour old, has passed authenticateToken of        *)
(* index.js and the route's handler has run for its user.                  *)
C21_Witness ==
  /\ impl = "index.js"
  /\ issued.kind = "reset"
  /\ issued.tok.age = 30
  /\ auth.handled = 1
  /\ auth.user = issued.tok.userId

\* --- claim C22
RaceAddress(r) == toLowerCase(raceReq[r].email.v)
RecordsFor(email) == {i \in 1..Len(registry) : registry[i].email = email}
OneRecordPerEmail == \A r \in Requests : Cardinality(RecordsFor(RaceAddress(r))) <= 1
(* Two requests for one address that pass the checks of the body, both     *)
(* answered, with a database that did not fail and token secrets that are  *)
(* configured.                                                             *)
RacedToTheEnd(r, q) ==
  /\ r # q
  /\ RaceAddress(r) = RaceAddress(q)
  /\ ~TooShort(raceReq[r].password) /\ ~TooShort(raceReq[q].password)
  /\ race[r].pc = "done" /\ race[q].pc = "done"
  /\ ~race[r].dbThrew /\ ~race[q].dbThrew
  /\ Truthy(TokenSecrets(impl, env).access) /\ Truthy(TokenSecrets(impl, env).refresh)
AtMostOneCreated(r, q) == ~(race[r].res.status = 201 /\ race[q].res.status = 201)

(* C22 as stated: under any interleaving of concurrent register requests   *)
(* for one address, in any letter case, at most one user record is created *)
(* for it and every other request is answered 409 Email already registered.*)
C22_AsStated ==
  /\ OneRecordPerEmail
  /\ \A r, q \in Requests :
       RacedToTheEnd(r, q) =>
         /\ AtMostOneCreated(r, q)
         /\ race[r].res.status # 201 =>
              race[r].res.status = 409 /\ race[r].res.error = "Email already registered"

(* C22, what holds: at most one record is created and at most one request  *)
(* is answered 201; a request that looked the address up after the insert  *)
(* is answered 409, and one that looked it up before the insert of the     *)
(* other and inserted after it is answered 500 Failed to create account.   *)
C22_LoserOfTheInsertGets500 ==
  /\ OneRecordPerEmail
  /\ \A r, q \in Requests :
       RacedToTheEnd(r, q) =>
         /\ AtMostOneCreated(r, q)
         /\ race[r].res.status \in {201, 409, 500}
         /\ race[r].res.status = 409 => race[r].res.error = "Email already registered"
         /\ race[r].res.status = 500 =>
              /\ race[r].res.error = "Failed to create account"
              /\ race[q].res.status = 201
              /\ race[r].passwordHash # NullHash

(* Two requests for a@b.c and A@b.c on an empty table are both answered:   *)
(* one with 201, the other with 500, and the table has one record.         *)
C22_Witness ==
  /\ raceReq[1].email = Str(<<"a", "@", "b", ".", "c">>)
  /\ raceReq[2].email = Str(<<"A", "@", "b", ".", "c">>)
  /\ RacedToTheEnd(1, 2)
  /\ race[1].res.status = 201
  /\ race[2].res.status = 500
  /\ Len(registry) = 1

\* --- claim C23
\* The request was answered with success: true and the sha of the new commit.
CommitSucceeded == commit.pc = "done" /\ commit.res.status = 200
\* The tree of the commit the handler made, and the tree it was based on.
NewTree == github.trees[github.commits[commit.res.sha].tree]
BaseTree == github.trees[commit.currentTreeSha]
SentPath(i) == StripSlash(commitReq.files[i].path)
Sent(action) == {i \in 1..Len(commitReq.files) : commitReq.files[i].action = action}
WrittenFiles == {i \in 1..Len(commitReq.files) : commitReq.files[i].action # "delete"}
HoldsContent(tree, p, text) == p \in DOMAIN tree /\ github.blobs[tree[p]] = text

(* C23 as stated: after a successful commit request every file sent with   *)
(* action 'delete' is absent from the tree of the new commit and every     *)
(* other file is present in it with the submitted content.                 *)
C23_AsStated ==
  CommitSucceeded =>
    /\ \A i \in Sent("delete") : SentPath(i) \notin DOMAIN NewTree
    /\ \A i \in WrittenFiles : HoldsContent(NewTree, SentPath(i), commitReq.files[i].content)

(* C23, what holds: the tree of the new commit is the tree of the commit   *)
(* the handler read, with the files that are not deletions written over    *)
(* it (of a path sent more than once, the last); a file sent with 'delete' *)
(* is left as it was, and is absent only if it was absent before or        *)
(* never there.                                                            *)
C23_DeletionsLeaveTheTree ==
  CommitSucceeded =>
    /\ DOMAIN NewTree = DOMAIN BaseTree \cup {SentPath(i) : i \in WrittenFiles}
    /\ \A i \in WrittenFiles :
         (\A j \in WrittenFiles : j > i => SentPath(j) # SentPath(i))
           => HoldsContent(NewTree, SentPath(i), commitReq.files[i].content)
    /\ \A p \in DOMAIN BaseTree :
         (\A i \in WrittenFiles : SentPath(i) # p) => NewTree[p] = BaseTree[p]
    /\ github.commits[commit.res.sha].parents = <<commit.currentCommitSha>>

(* A request that deletes a and writes b has succeeded, and the tree of    *)
(* its commit holds b as sent and a as it was.                             *)
C23_Witness ==
  /\ CommitSucceeded
  /\ commitReq.files = <<[action |-> "delete", path |-> <<"a">>, content |-> NoContent],
                         [action |-> "modify", path |-> <<"b">>, content |-> "x"]>>
  /\ HoldsContent(NewTree, <<"a">>, "v0")
  /\ HoldsContent(NewTree, <<"b">>, "x")

====
